---- MODULE Spec2Model ----
(***************************************************************************)
(* Protocol engine of the marine-integrations instrument drivers: the      *)
(* sieve functions of the Teledyne Workhorse and Sunburst SAMI2-pCO2       *)
(* drivers, the chunker that drains them, the inbound-data callback        *)
(* _got_chunk and the protocol state machine their handlers run in.        *)
(*                                                                         *)
(* Bytes are naturals 0..255.  Offsets into a buffer are 0-based and a     *)
(* range <<s, e>> covers the offsets s .. e-1, as Python's match.start()   *)
(* and match.end() do; buf[i + 1] is the byte at offset i.                 *)
(***************************************************************************)
EXTENDS Integers, Sequences, FiniteSets, TLC

\* ------------------------------------------------------------------------
\* Bounds of the model
\* ------------------------------------------------------------------------
\* Longest piece one feed call delivers.
MaxFeed == 2

\* Longest input stream of the transport profile with long PD0 frames.
MaxLongStream == 9

\* Longest input stream of the transport profile with short PD0 frames.
MaxShortStream == 8

\* Longest input stream of the profile mixing PD0 frames and text records.
MaxMixedStream == 6

\* Longest input stream when a long frame is followed through to its end.
MaxTruncatedStream == 11

\* Longest input stream of whole records given to the Workhorse protocol.
MaxProtocolStream == 6

\* Longest input stream of the SAMI transport delivering device-1 records.
MaxDev1Stream == 41

\* Longest input stream of the SAMI transport delivering sample records.
MaxSampleStream == 100

\* Most retries a PendingCommand is armed with.
MaxRetries == 2

\* Longest input stream of the SAMI transport delivering status strings,
\* control records and device-1 records.
MaxStatusStream == 60
MaxPending == 2

\* ------------------------------------------------------------------------
\* Regular expressions of the recognizers.  Every pattern the sieve
\* functions use has a fixed length: a sequence of character classes, one
\* per byte, followed by a fixed number of arbitrary bytes (re.DOTALL):
\* [pat |-> <<class, ..>>, any |-> n], a class being a set of bytes.
\* ------------------------------------------------------------------------
SYNC == 127

\* The pattern of a literal string.
Lit(bytes) == [i \in 1..Len(bytes) |-> {bytes[i]}]

\* class{n}
Rep(class, n) == [i \in 1..n |-> class]

Min(a, b) == IF a < b THEN a ELSE b

\* The slice buf[s:e] of Python: both ends are clamped to the buffer.
Slice(buf, s, e) ==
    LET lo == Min(s, Len(buf))
        hi == Min(e, Len(buf))
    IN  [i \in 1..(hi - lo) |-> buf[lo + i]]

MatchLen(re) == Len(re.pat) + re.any

\* re.match at offset pos: the whole pattern fits and every byte is in its
\* class.
MatchAt(re, buf, pos) ==
    /\ pos + MatchLen(re) <= Len(buf)
    /\ \A i \in 1..Len(re.pat) : buf[pos + i] \in re.pat[i]

\* Pattern.finditer(buf, pos): the non-overlapping matches, left to right;
\* the scan resumes at the end of each match.
RECURSIVE finditer(_, _, _)
finditer(re, buf, pos) ==
    IF pos + MatchLen(re) > Len(buf) THEN <<>>
    ELSE IF MatchAt(re, buf, pos)
         THEN <<<<pos, pos + MatchLen(re)>>>> \o finditer(re, buf, pos + MatchLen(re))
         ELSE finditer(re, buf, pos + 1)

\* struct.unpack("H", two bytes): an unsigned 16-bit little-endian integer.
unpack_H(b1, b2) == (b1 + 256 * b2) % 65536

\* matcher2 = re.compile(r'\x7f\x7f(..)', re.DOTALL)
matcher2 == [pat |-> Lit(<<SYNC, SYNC>>), any |-> 2]

\* Mutant: the length counted from the end of the length field, so that
\* the frame spans 2 + 2 + l bytes.
TRUE_MATCHER_LengthAfterField(l) == [pat |-> Lit(<<SYNC, SYNC>>), any |-> l + 2]

\* ADCP_PD0_PARSED_TRUE_MATCHER = re.compile(r'\x7f\x7f(.{l})', re.DOTALL)
ADCP_PD0_PARSED_TRUE_MATCHER(l) == [pat |-> Lit(<<SYNC, SYNC>>), any |-> l]

\* Fixed-grammar records of the Workhorse: a leading marker and a fixed
\* total length.
SysConfigMarker == 83

SysConfigLen == 2

CompassMarker == 67

CompassLen == 3

ADCP_SYSTEM_CONFIGURATION_REGEX_MATCHER ==
    [pat |-> Lit(<<SysConfigMarker>>), any |-> SysConfigLen - 1]

ADCP_COMPASS_CALIBRATION_REGEX_MATCHER ==
    [pat |-> Lit(<<CompassMarker>>), any |-> CompassLen - 1]

\* Mutant: only the first match of the matcher is appended.
FixedRangesFirstOnly(matcher, raw_data) ==
    LET found == finditer(matcher, raw_data, 0)
    IN  IF found = <<>> THEN <<>> ELSE <<Head(found)>>

\* The matches of a fixed-grammar matcher, appended in finditer order.
FixedRanges(matcher, raw_data) == finditer(matcher, raw_data, 0)

\* Mutant: the end of the range computed two bytes past match.end().
InnerRangesPastEnd(raw_data, outer_pos) ==
    LET l == unpack_H(raw_data[outer_pos + 3], raw_data[outer_pos + 4])
        inner == finditer(ADCP_PD0_PARSED_TRUE_MATCHER(l), raw_data, outer_pos)
        kept == SelectSeq(inner, LAMBDA m : outer_pos = m[1])
    IN  [i \in 1..Len(kept) |-> <<kept[i][1], kept[i][2] + 2>>]

\* Mutant: every match of the length-specific matcher from outer_pos on is
\* kept, wherever it starts.
InnerRangesAtAnyOffset(raw_data, outer_pos) ==
    LET l == unpack_H(raw_data[outer_pos + 3], raw_data[outer_pos + 4])
    IN  finditer(ADCP_PD0_PARSED_TRUE_MATCHER(l), raw_data, outer_pos)

\* The inner loop of the variable-length branch: the matches of the
\* length-specific matcher from outer_pos on, kept when they start at
\* outer_pos.
InnerRanges(raw_data, outer_pos) ==
    LET l == unpack_H(raw_data[outer_pos + 3], raw_data[outer_pos + 4])
        inner == finditer(ADCP_PD0_PARSED_TRUE_MATCHER(l), raw_data, outer_pos)
    IN  SelectSeq(inner, LAMBDA m : outer_pos = m[1])

RECURSIVE OuterLoop(_, _, _)
OuterLoop(raw_data, outer, i) ==
    IF i > Len(outer) THEN <<>>
    ELSE InnerRanges(raw_data, outer[i][1]) \o OuterLoop(raw_data, outer, i + 1)

\* The variable-length branch of sieve_function.
Pd0Ranges(raw_data) == OuterLoop(raw_data, finditer(matcher2, raw_data, 0), 1)

\* WorkhorseProtocol.sieve_function of the 150 kHz driver.
sieve_function_150(raw_data) ==
    FixedRanges(ADCP_SYSTEM_CONFIGURATION_REGEX_MATCHER, raw_data)
      \o FixedRanges(ADCP_COMPASS_CALIBRATION_REGEX_MATCHER, raw_data)
      \o Pd0Ranges(raw_data)

\* Mutant: the 300 kHz driver runs no system-configuration recognizer.
sieve_function_300_without_configuration(raw_data) ==
    FixedRanges(ADCP_COMPASS_CALIBRATION_REGEX_MATCHER, raw_data) \o Pd0Ranges(raw_data)

\* WorkhorseProtocol.sieve_function of the 300 kHz driver.
sieve_function_300(raw_data) ==
    FixedRanges(ADCP_COMPASS_CALIBRATION_REGEX_MATCHER, raw_data)
      \o FixedRanges(ADCP_SYSTEM_CONFIGURATION_REGEX_MATCHER, raw_data)
      \o Pd0Ranges(raw_data)

\* ------------------------------------------------------------------------
\* Records of the SAMI2-pCO2: ASCII-hex text, a leading marker, fields of
\* fixed width and a line end.
\* ------------------------------------------------------------------------
Star == 42

Colon == 58

\* [0-9A-Fa-f]
HexDigit == (48..57) \cup (65..70) \cup (97..102)

\* The line end of the SAMI instruments: a carriage return.
NEWLINE == <<13>>

\* SAMI Sample Records (Types 0x04 or 0x05).
SAMI_SAMPLE_REGEX ==
    Lit(<<Star>>)                   \* record identifier
      \o Rep(HexDigit, 2)           \* unique instrument identifier
      \o Rep(HexDigit, 2)           \* length of data record
      \o <<{48}, {52, 53}>>         \* type of data record: 04 or 05
      \o Rep(HexDigit, 8)           \* timestamp
      \o Rep(HexDigit, 56)          \* 14 sets of light measurements
      \o Rep(HexDigit, 4)           \* battery voltage
      \o Rep(HexDigit, 4)           \* thermistor
      \o Rep(HexDigit, 2)           \* checksum
      \o Lit(NEWLINE)

SAMI_SAMPLE_REGEX_MATCHER == [pat |-> SAMI_SAMPLE_REGEX, any |-> 0]

\* Device 1 Sample Records (Type 0x11).
DEV1_SAMPLE_REGEX ==
    Lit(<<Star>>)
      \o Rep(HexDigit, 2)           \* unique instrument identifier
      \o Rep(HexDigit, 2)           \* length of data record
      \o Lit(<<49, 49>>)            \* type of data record: 11
      \o Rep(HexDigit, 8)           \* timestamp
      \o Rep(HexDigit, 2)           \* checksum
      \o Lit(NEWLINE)

DEV1_SAMPLE_REGEX_MATCHER == [pat |-> DEV1_SAMPLE_REGEX, any |-> 0]

\* PCO2W Configuration Record: 512 hex digits in 31 fields and a line end.
CONFIGURATION_REGEX ==
    Rep(HexDigit, 8) \o Rep(HexDigit, 8) \o Rep(HexDigit, 8)    \* launch, start, stop
      \o Rep(HexDigit, 2)                                       \* mode bit field
      \o Rep(HexDigit, 6) \o Rep(HexDigit, 2) \o Rep(HexDigit, 2)   \* SAMI
      \o Rep(HexDigit, 6) \o Rep(HexDigit, 2) \o Rep(HexDigit, 2)   \* device 1
      \o Rep(HexDigit, 6) \o Rep(HexDigit, 2) \o Rep(HexDigit, 2)   \* device 2
      \o Rep(HexDigit, 6) \o Rep(HexDigit, 2) \o Rep(HexDigit, 2)   \* device 3
      \o Rep(HexDigit, 6) \o Rep(HexDigit, 2) \o Rep(HexDigit, 2)   \* prestart
      \o Rep(HexDigit, 2)                                       \* global bit field
      \o Rep(HexDigit, 2) \o Rep(HexDigit, 2) \o Rep(HexDigit, 2)   \* pCO2-1 .. 3
      \o Rep(HexDigit, 2) \o Rep(HexDigit, 2) \o Rep(HexDigit, 2)   \* pCO2-4 .. 6
      \o Rep(HexDigit, 2) \o Rep(HexDigit, 2) \o Rep(HexDigit, 2)   \* pCO2-7 .. 9
      \o Rep(HexDigit, 2)                                       \* device 1 setting
      \o Rep(HexDigit, 414)                                     \* padding
      \o Lit(NEWLINE)

CONFIGURATION_REGEX_MATCHER == [pat |-> CONFIGURATION_REGEX, any |-> 0]

\* The two records of the Sunburst base driver: a regular status string
\* (marker `:`) and a control record (marker `*`, type 0x80 .. 0xFF).
REGULAR_STATUS_REGEX_MATCHER ==
    [pat |-> Lit(<<Colon>>) \o Rep(HexDigit, 32) \o Lit(NEWLINE), any |-> 0]

CONTROL_RECORD_REGEX_MATCHER ==
    [pat |-> Lit(<<Star>>) \o Rep(HexDigit, 4)
               \o <<{56, 57} \cup (65..70) \cup (97..102), HexDigit>>
               \o Rep(HexDigit, 32) \o Lit(NEWLINE),
     any |-> 0]

\* Protocol.sieve_function of the SAMI2-pCO2 driver.
sieve_function_sami(raw_data) ==
    FixedRanges(REGULAR_STATUS_REGEX_MATCHER, raw_data)
      \o FixedRanges(CONTROL_RECORD_REGEX_MATCHER, raw_data)
      \o FixedRanges(SAMI_SAMPLE_REGEX_MATCHER, raw_data)
      \o FixedRanges(DEV1_SAMPLE_REGEX_MATCHER, raw_data)
      \o FixedRanges(CONFIGURATION_REGEX_MATCHER, raw_data)

\* ------------------------------------------------------------------------
\* Chunker (mi.core.instrument.chunker.StringChunker as section 4.2 of the
\* specification describes it)
\* ------------------------------------------------------------------------

\* The range that wins among a pool: earliest start, then widest.
Earliest(S) ==
    CHOOSE r \in S : \A q \in S : r[1] < q[1] \/ (r[1] = q[1] /\ r[2] >= q[2])

\* Mutant: ordered by start, but a range overlapping a kept one is kept too.
RECURSIVE ResolveFromKeepAll(_, _)
ResolveFromKeepAll(S, floor) ==
    IF S = {} THEN <<>>
    ELSE LET r == Earliest(S)
         IN  <<r>> \o ResolveFromKeepAll(S \ {r}, r[2])

\* Final ordering and overlap resolution of a pool of ranges: taken in
\* (start, widest) order, a range overlapping one already kept is discarded.
RECURSIVE ResolveFrom(_, _)
ResolveFrom(S, floor) ==
    IF S = {} THEN <<>>
    ELSE LET r == Earliest(S)
         IN  IF r[1] >= floor
             THEN <<r>> \o ResolveFrom(S \ {r}, r[2])
             ELSE ResolveFrom(S \ {r}, floor)

\* Mutant: the pool is handed on in the order the sieve pooled it.
ResolveUnsorted(ranges) == ranges

Resolve(ranges) == ResolveFrom({ranges[i] : i \in 1..Len(ranges)}, 0)

\* A recognizer has a partial match at offset pos: the bytes from pos to
\* the end of the buffer start a record that more bytes may complete.
PartialAt(re, buf, pos) ==
    /\ pos < Len(buf)
    /\ pos + MatchLen(re) > Len(buf)
    /\ \A i \in 1..Min(Len(re.pat), Len(buf) - pos) : buf[pos + i] \in re.pat[i]

Pd0PartialAt(buf, pos) ==
    \/ PartialAt(matcher2, buf, pos)
    \/ /\ MatchAt(matcher2, buf, pos)
       /\ PartialAt(ADCP_PD0_PARSED_TRUE_MATCHER(unpack_H(buf[pos + 3], buf[pos + 4])), buf, pos)

SamiMatchers ==
    {REGULAR_STATUS_REGEX_MATCHER, CONTROL_RECORD_REGEX_MATCHER, SAMI_SAMPLE_REGEX_MATCHER,
     DEV1_SAMPLE_REGEX_MATCHER, CONFIGURATION_REGEX_MATCHER}

\* Some recognizer of the driver's sieve has a partial match at pos.
AnyPartialAt(drv, buf, pos) ==
    IF drv = "sami"
    THEN \E re \in SamiMatchers : PartialAt(re, buf, pos)
    ELSE \/ Pd0PartialAt(buf, pos)
         \/ PartialAt(ADCP_SYSTEM_CONFIGURATION_REGEX_MATCHER, buf, pos)
         \/ PartialAt(ADCP_COMPASS_CALIBRATION_REGEX_MATCHER, buf, pos)

\* Where the retained buffer starts once the chunk ending at `from` was
\* consumed and no chunk remains: at the first partial match of the tail,
\* or past the last byte.
TailStart(drv, buf, from) ==
    LET P == {p \in from..(Len(buf) - 1) : AnyPartialAt(drv, buf, p)}
    IN  IF P = {} THEN Len(buf) ELSE CHOOSE p \in P : \A q \in P : p <= q

\* Mutant: only the bytes before the consumed chunk are evicted.
EvictToChunkStart(drv, buf, c, rest) == c[1]

\* The offset the buffer is trimmed to after chunk c was consumed.
EvictTo(drv, buf, c, rest) ==
    IF rest # <<>> THEN rest[1][1] ELSE TailStart(drv, buf, c[2])

Shift(ranges, by) == [i \in 1..Len(ranges) |-> <<ranges[i][1] - by, ranges[i][2] - by>>]

\* The sieve function the protocol built its chunker with.
Sieve(drv, raw_data) ==
    CASE drv = "150" -> sieve_function_150(raw_data)
      [] drv = "300" -> sieve_function_300(raw_data)
      [] drv = "sami" -> sieve_function_sami(raw_data)

\* ------------------------------------------------------------------------
\* Particle extraction and the inbound-data callback of the Workhorse
\* ------------------------------------------------------------------------

\* ADCP_PD0_PARSED_REGEX_MATCHER: the sync marker and the length field.
ADCP_PD0_PARSED_REGEX_MATCHER == matcher2

\* _extract_sample(particle_class, regex, chunk, timestamp): the particle is
\* published when regex.match(chunk) succeeds.
extract_sample(type, regex, chunk) == IF MatchAt(regex, chunk, 0) THEN <<type>> ELSE <<>>

\* Mutant: the recovery event raised when recovery is disabled.
RecoverEventWhenDisabled(pd0, disable, state) ==
    IF pd0 /\ disable = TRUE /\ state = "COMMAND" THEN "RECOVER_AUTOSAMPLE" ELSE "none"

\* Mutant: the recovery event raised whatever the current state is.
RecoverEventInAnyState(pd0, disable, state) ==
    IF pd0 /\ disable # TRUE THEN "RECOVER_AUTOSAMPLE" ELSE "none"

\* The event _got_chunk raises after a PD0 particle was extracted.
RecoverEvent(pd0, disable, state) ==
    IF pd0 /\ disable # TRUE /\ state = "COMMAND" THEN "RECOVER_AUTOSAMPLE" ELSE "none"

\* WorkhorseProtocol._got_chunk of the 150 kHz driver: the particles it
\* publishes, in order, and the event it raises.
got_chunk_150(chunk, disable, state) ==
    LET compass == extract_sample("COMPASS_CALIBRATION", ADCP_COMPASS_CALIBRATION_REGEX_MATCHER, chunk)
        pd0 == extract_sample("PD0_PARSED", ADCP_PD0_PARSED_REGEX_MATCHER, chunk)
        returned == pd0 # <<>> /\ disable # TRUE
        sysconf == IF returned THEN <<>>
                   ELSE extract_sample("SYSTEM_CONFIGURATION", ADCP_SYSTEM_CONFIGURATION_REGEX_MATCHER, chunk)
    IN  [particles |-> compass \o pd0 \o sysconf,
         event |-> RecoverEvent(pd0 # <<>>, disable, state)]

\* WorkhorseProtocol._got_chunk of the 300 kHz driver.
got_chunk_300(chunk, disable, state) ==
    LET compass == extract_sample("COMPASS_CALIBRATION", ADCP_COMPASS_CALIBRATION_REGEX_MATCHER, chunk)
        sysconf == extract_sample("SYSTEM_CONFIGURATION", ADCP_SYSTEM_CONFIGURATION_REGEX_MATCHER, chunk)
        pd0 == extract_sample("PD0_PARSED", ADCP_PD0_PARSED_REGEX_MATCHER, chunk)
    IN  [particles |-> compass \o sysconf \o pd0,
         event |-> RecoverEvent(pd0 # <<>>, disable, state)]

got_chunk(drv, chunk, disable, state) ==
    IF drv = "150" THEN got_chunk_150(chunk, disable, state)
    ELSE got_chunk_300(chunk, disable, state)

\* ------------------------------------------------------------------------
\* Protocol state machine (mi.core.instrument.instrument_fsm.InstrumentFSM
\* as section 4.5 of the specification describes it)
\* ------------------------------------------------------------------------

\* What a handler body hands back: a (next_state, result) pair or nothing.
Pair(next_state) == [returned |-> "pair", next_state |-> next_state]

Nothing == [returned |-> "nothing", next_state |-> "None"]

\* The handlers of the Teledyne base protocol and where they lead.
TeledyneReturns(handler) ==
    CASE handler = "_handler_unknown_discover" -> {Pair("COMMAND"), Pair("AUTOSAMPLE")}
      [] handler = "_handler_command_start_autosample" -> {Pair("AUTOSAMPLE")}
      [] handler = "_handler_autosample_stop_autosample" -> {Pair("COMMAND")}
      [] handler = "_handler_recover_autosample" -> {Pair("AUTOSAMPLE")}

\* Mutant: the body hands back the pair (None, None).
handler_command_power_down_pair == Pair("None")

\* WorkhorseProtocol._handler_command_power_down: the body is `pass`.
handler_command_power_down == Nothing

\* WorkhorseProtocol._handler_command_restore_factory_params: `pass`.
handler_command_restore_factory_params == Nothing

\* What the handlers of the Workhorse protocol hand back.
WorkhorseReturns(handler) ==
    CASE handler = "_handler_command_power_down" -> {handler_command_power_down}
      [] handler = "_handler_command_restore_factory_params" ->
            {handler_command_restore_factory_params}
      [] OTHER -> TeledyneReturns(handler)

WorkhorseStates == {"UNKNOWN", "COMMAND", "AUTOSAMPLE"}

WorkhorseEvents ==
    {"DISCOVER", "START_AUTOSAMPLE", "STOP_AUTOSAMPLE", "RECOVER_AUTOSAMPLE",
     "POWER_DOWN", "RESTORE_FACTORY_PARAMS"}

\* The transition table of the Teledyne base protocol.
TeledyneTable ==
    {<<"UNKNOWN", "DISCOVER", "_handler_unknown_discover">>,
     <<"COMMAND", "START_AUTOSAMPLE", "_handler_command_start_autosample">>,
     <<"AUTOSAMPLE", "STOP_AUTOSAMPLE", "_handler_autosample_stop_autosample">>,
     <<"COMMAND", "RECOVER_AUTOSAMPLE", "_handler_recover_autosample">>}

\* Mutant: a pair that has a handler keeps it.
add_handler_first_wins(table, state, event, handler) ==
    IF \E t \in table : t[1] = state /\ t[2] = event
    THEN table
    ELSE table \cup {<<state, event, handler>>}

\* add_handler(state, event, handler): the last write for a pair wins.
add_handler(table, state, event, handler) ==
    {t \in table : ~(t[1] = state /\ t[2] = event)} \cup {<<state, event, handler>>}

\* WorkhorseProtocol.__init__: the handlers the driver adds to the table.
WorkhorseTable(drv) ==
    LET power == add_handler(TeledyneTable, "COMMAND", "POWER_DOWN",
                             "_handler_command_power_down")
    IN  IF drv = "150"
        THEN add_handler(power, "COMMAND", "RESTORE_FACTORY_PARAMS",
                         "_handler_command_restore_factory_params")
        ELSE power

\* The handlers registered for (state, event): one or none.
Lookup(table, state, event) == {t[3] : t \in {u \in table : u[1] = state /\ u[2] = event}}

Idle == [handler |-> "none", event |-> "none", state |-> "none"]

NoOutcome ==
    [event |-> "none", before |-> "none", handler |-> "none", next_state |-> "none",
     after |-> "none", error |-> <<"none">>]

\* Mutant: an event without a handler is ignored and the call succeeds.
UnhandledIgnored(state, event) ==
    [event |-> event, before |-> state, handler |-> "none", next_state |-> "none",
     after |-> state, error |-> <<"none">>]

\* on_event finding no handler: UnhandledEvent with the state and the event.
Unhandled(state, event) ==
    [event |-> event, before |-> state, handler |-> "none", next_state |-> "none",
     after |-> state, error |-> <<"UnhandledEvent", state, event>>]

\* on_event after the handler returned: a pair with a non-null next_state
\* updates the current state; a body that returned no pair fails the call.
\* `handler` and `next_state` record what ran and what it handed back.
Completed(call, current, ret) ==
    [event |-> call.event, before |-> call.state, handler |-> call.handler,
     next_state |-> IF ret.returned = "pair" THEN ret.next_state ELSE "none",
     after |-> IF ret.returned = "pair" /\ ret.next_state # "None" THEN ret.next_state ELSE current,
     error |-> IF ret.returned = "pair" THEN <<"none">> ELSE <<"TypeError">>]

\* ------------------------------------------------------------------------
\* Protocol of the SAMI2-pCO2 driver
\* ------------------------------------------------------------------------
SamiStates ==
    {"UNKNOWN", "COMMAND", "AUTOSAMPLE", "DIRECT_ACCESS", "SCHEDULED_SAMPLE", "POLLED_SAMPLE"}

SamplingStates == {"SCHEDULED_SAMPLE", "POLLED_SAMPLE"}

\* The events the callers of the SAMI protocol raise as commands.
SamiCommandEvents ==
    {"DISCOVER", "START_AUTOSAMPLE", "STOP_AUTOSAMPLE", "START_DIRECT", "STOP_DIRECT",
     "ACQUIRE_SAMPLE"}

\* SHUTDOWN is the event raised when the connection is closed.
SamiEvents == SamiCommandEvents \cup {"SUCCESS", "TIMEOUT", "SHUTDOWN"}

\* The transition table of the SAMI base protocol: SCHEDULED_SAMPLE is
\* entered on ACQUIRE_SAMPLE in AUTOSAMPLE, POLLED_SAMPLE on ACQUIRE_SAMPLE
\* in COMMAND or by the discover transition from UNKNOWN.
SamiBaseTable ==
    {<<"UNKNOWN", "DISCOVER", "_handler_unknown_discover">>,
     <<"COMMAND", "START_AUTOSAMPLE", "_handler_command_start_autosample">>,
     <<"AUTOSAMPLE", "STOP_AUTOSAMPLE", "_handler_autosample_stop">>,
     <<"COMMAND", "START_DIRECT", "_handler_command_start_direct">>,
     <<"DIRECT_ACCESS", "STOP_DIRECT", "_handler_direct_access_stop_direct">>,
     <<"COMMAND", "ACQUIRE_SAMPLE", "_handler_command_acquire_sample">>,
     <<"AUTOSAMPLE", "ACQUIRE_SAMPLE", "_handler_autosample_acquire_sample">>}

\* Mutant: POLLED_SAMPLE also takes ACQUIRE_SAMPLE, with the handler of
\* COMMAND that issues the command.
SamiTableAcquireWhileSampling ==
    LET t1 == add_handler(SamiBaseTable, "SCHEDULED_SAMPLE", "SUCCESS", "_handler_sample_success")
        t2 == add_handler(t1, "SCHEDULED_SAMPLE", "TIMEOUT", "_handler_sample_timeout")
        t3 == add_handler(t2, "POLLED_SAMPLE", "SUCCESS", "_handler_sample_success")
        t4 == add_handler(t3, "POLLED_SAMPLE", "TIMEOUT", "_handler_sample_timeout")
    IN  add_handler(t4, "POLLED_SAMPLE", "ACQUIRE_SAMPLE", "_handler_command_acquire_sample")

\* Mutant: the driver registers nothing for the two sampling states.
SamiTableNoSamplingHandlers == SamiBaseTable

\* Mutant: the registration of (POLLED_SAMPLE, SUCCESS) leaves a second
\* handler in place next to the one it adds.
SamiTableTwoHandlers ==
    LET t1 == add_handler(SamiBaseTable, "SCHEDULED_SAMPLE", "SUCCESS", "_handler_sample_success")
        t2 == add_handler(t1, "SCHEDULED_SAMPLE", "TIMEOUT", "_handler_sample_timeout")
        t3 == add_handler(t2, "POLLED_SAMPLE", "SUCCESS", "_handler_sample_success")
        t4 == add_handler(t3, "POLLED_SAMPLE", "TIMEOUT", "_handler_sample_timeout")
    IN  t4 \cup {<<"POLLED_SAMPLE", "SUCCESS", "_handler_sample_timeout">>}

\* Protocol.__init__: the handlers of the two sampling states.
SamiTable ==
    LET t1 == add_handler(SamiBaseTable, "SCHEDULED_SAMPLE", "SUCCESS", "_handler_sample_success")
        t2 == add_handler(t1, "SCHEDULED_SAMPLE", "TIMEOUT", "_handler_sample_timeout")
        t3 == add_handler(t2, "POLLED_SAMPLE", "SUCCESS", "_handler_sample_success")
    IN  add_handler(t3, "POLLED_SAMPLE", "TIMEOUT", "_handler_sample_timeout")

\* Mutant: the SUCCESS handler of the sampling states leads to COMMAND.
handler_sample_success_to_command == Pair("COMMAND")

\* Protocol._handler_sample_success: next_state = None, result = None.
handler_sample_success == Pair("None")

\* Protocol._handler_sample_timeout: next_state = None, result = None.
handler_sample_timeout == Pair("None")

\* The handlers of the SAMI base protocol and where they lead.
SamiBaseReturns(handler) ==
    CASE handler = "_handler_unknown_discover" ->
            {Pair("COMMAND"), Pair("AUTOSAMPLE"), Pair("POLLED_SAMPLE")}
      [] handler = "_handler_command_start_autosample" -> {Pair("AUTOSAMPLE")}
      [] handler = "_handler_autosample_stop" -> {Pair("COMMAND")}
      [] handler = "_handler_command_start_direct" -> {Pair("DIRECT_ACCESS")}
      [] handler = "_handler_direct_access_stop_direct" -> {Pair("COMMAND")}
      [] handler = "_handler_command_acquire_sample" -> {Pair("POLLED_SAMPLE")}
      [] handler = "_handler_autosample_acquire_sample" -> {Pair("SCHEDULED_SAMPLE")}

\* What the handlers of the SAMI2-pCO2 protocol hand back.
SamiReturns(handler) ==
    CASE handler = "_handler_sample_success" -> {handler_sample_success}
      [] handler = "_handler_sample_timeout" -> {handler_sample_timeout}
      [] OTHER -> SamiBaseReturns(handler)

\* The handlers that issue the acquire-sample command on the way into a
\* sampling state.
IssuesCommand(handler) ==
    handler \in {"_handler_command_acquire_sample", "_handler_autosample_acquire_sample"}

\* A PendingCommand just armed with n retries and transmitted once.
Armed(n) ==
    [retries |-> n, retries_remaining |-> n, attempts |-> 1, waiting |-> TRUE, failed |-> FALSE]

\* The deadline of every waiting command has passed.
Expire(cmds) == [i \in 1..Len(cmds) |-> [cmds[i] EXCEPT !.waiting = FALSE]]

\* ------------------------------------------------------------------------
\* Configuration record of the SAMI2-pCO2: particle and parameter dictionary
\* ------------------------------------------------------------------------

\* A Python integer is held as its hexadecimal digits, most significant
\* first and without leading zeros; zero is the empty sequence.
RECURSIVE StripZeros(_)
StripZeros(digits) ==
    IF digits # <<>> /\ Head(digits) = 0 THEN StripZeros(Tail(digits)) ELSE digits

\* The value of one hexadecimal character, of either case.
HexValue(c) == IF c \in 48..57 THEN c - 48 ELSE IF c \in 65..70 THEN c - 55 ELSE c - 87

\* int(text, 16)
int16(text) == StripZeros([i \in 1..Len(text) |-> HexValue(text[i])])

\* bool(val & (1 << index))
Bit(val, index) ==
    LET n == Len(val) - (index \div 4)
    IN  n >= 1 /\ (val[n] \div (2 ^ (index % 4))) % 2 = 1

\* The widths of the 31 groups of CONFIGURATION_REGEX.
ConfigurationGroups ==
    <<8, 8, 8, 2, 6, 2, 2, 6, 2, 2, 6, 2, 2, 6, 2, 2, 6, 2, 2,
      2, 2, 2, 2, 2, 2, 2, 2, 2, 2, 2, 414>>

\* Offset of group k in a record: the widths of the groups before it,
\* summed width by width.
GroupStart(k) ==
    LET count(w) == Cardinality({i \in 1..(k - 1) : ConfigurationGroups[i] = w})
    IN  2 * count(2) + 6 * count(6) + 8 * count(8) + 414 * count(414)

\* matched.group(k) of a match of CONFIGURATION_REGEX at the start of raw.
group(raw, k) == Slice(raw, GroupStart(k), GroupStart(k) + ConfigurationGroups[k])

\* The keys of the configuration particle, in the order they are built.
particle_keys ==
    <<"LAUNCH_TIME", "START_TIME_OFFSET", "RECORDING_TIME", "PMI_SAMPLE_SCHEDULE",
      "SAMI_SAMPLE_SCHEDULE", "SLOT1_FOLLOWS_SAMI_SCHEDULE", "SLOT1_INDEPENDENT_SCHEDULE",
      "SLOT2_FOLLOWS_SAMI_SCHEDULE", "SLOT2_INDEPENDENT_SCHEDULE",
      "SLOT3_FOLLOWS_SAMI_SCHEDULE", "SLOT3_INDEPENDENT_SCHEDULE", "TIMER_INTERVAL_SAMI",
      "DRIVER_ID_SAMI", "PARAMETER_POINTER_SAMI", "TIMER_INTERVAL_DEVICE1",
      "DRIVER_ID_DEVICE1", "PARAMETER_POINTER_DEVICE1", "TIMER_INTERVAL_DEVICE2",
      "DRIVER_ID_DEVICE2", "PARAMETER_POINTER_DEVICE2", "TIMER_INTERVAL_DEVICE3",
      "DRIVER_ID_DEVICE3", "PARAMETER_POINTER_DEVICE3", "TIMER_INTERVAL_PRESTART",
      "DRIVER_ID_PRESTART", "PARAMETER_POINTER_PRESTART", "USE_BAUD_RATE_57600",
      "SEND_RECORD_TYPE", "SEND_LIVE_RECORDS", "EXTEND_GLOBAL_CONFIG", "PUMP_PULSE",
      "PUMP_DURATION", "SAMPLES_PER_MEASUREMENT", "CYCLES_BETWEEN_BLANKS",
      "NUMBER_REAGENT_CYCLES", "NUMBER_BLANK_CYCLES", "FLUSH_PUMP_INTERVAL",
      "DISABLE_START_BLANK_FLUSH", "MEASURE_AFTER_PUMP_PULSE", "NUMBER_EXTRA_PUMP_CYCLES",
      "EXTERNAL_PUMP_SETTINGS">>

ModeKeys ==
    {"PMI_SAMPLE_SCHEDULE", "SAMI_SAMPLE_SCHEDULE", "SLOT1_FOLLOWS_SAMI_SCHEDULE",
     "SLOT1_INDEPENDENT_SCHEDULE", "SLOT2_FOLLOWS_SAMI_SCHEDULE",
     "SLOT2_INDEPENDENT_SCHEDULE", "SLOT3_FOLLOWS_SAMI_SCHEDULE",
     "SLOT3_INDEPENDENT_SCHEDULE"}

GlobalKeys ==
    {"USE_BAUD_RATE_57600", "SEND_RECORD_TYPE", "SEND_LIVE_RECORDS", "EXTEND_GLOBAL_CONFIG"}

SamiBitKeys == {"DISABLE_START_BLANK_FLUSH", "MEASURE_AFTER_PUMP_PULSE"}

\* Mutant: the mode bits are read from the global configuration byte.
ModeBitFromGlobal(raw, mode_index) == Bit(int16(group(raw, 20)), mode_index)

\* bool(int(matched.group(4), 16) & (1 << mode_index))
ModeBit(raw, mode_index) == Bit(int16(group(raw, 4)), mode_index)

BitKeys == ModeKeys \cup GlobalKeys \cup SamiBitKeys

\* The running indexes of the loop of _build_parsed_values when it comes
\* to the j-th key.  A bit index has been bumped once for every key of its
\* field met so far; the global bit index skips from 3 to 7.
mode_index(keys, j) == Cardinality({i \in 1..(j - 1) : keys[i] \in ModeKeys})

\* Mutant: the global bit index is bumped without the skip from 3 to 7.
glbl_index_without_gap(keys, j) == Cardinality({i \in 1..(j - 1) : keys[i] \in GlobalKeys})

glbl_index(keys, j) ==
    LET bumps == Cardinality({i \in 1..(j - 1) : keys[i] \in GlobalKeys})
    IN  IF bumps < 3 THEN bumps ELSE 7 + (bumps - 3)

sami_index(keys, j) == Cardinality({i \in 1..(j - 1) : keys[i] \in SamiBitKeys})

\* Mutant: the group index is never set by the keys of a bit field; it
\* counts the keys parsed as integers.
grp_index_not_resumed(keys, j) ==
    1 + Cardinality({i \in 1..(j - 1) : keys[i] \notin BitKeys})

\* The group index starts at 1, is bumped by every key parsed as an
\* integer and is set to 5, 21 or 29 by every key of a bit field.
grp_index(keys, j) ==
    LET resets == {i \in 1..(j - 1) : keys[i] \in BitKeys}
        last == IF resets = {} THEN 0 ELSE CHOOSE i \in resets : \A q \in resets : q <= i
        from == IF last = 0 THEN 1
                ELSE IF keys[last] \in ModeKeys THEN 5
                ELSE IF keys[last] \in GlobalKeys THEN 21
                ELSE 29
    IN  from + Cardinality({i \in (last + 1)..(j - 1) : keys[i] \notin BitKeys})

\* The value the loop appends for the j-th key.
ParsedValue(raw, keys, j) ==
    IF keys[j] \in ModeKeys THEN ModeBit(raw, mode_index(keys, j))
    ELSE IF keys[j] \in GlobalKeys THEN Bit(int16(group(raw, 20)), glbl_index(keys, j))
    ELSE IF keys[j] \in SamiBitKeys THEN Bit(int16(group(raw, 28)), sami_index(keys, j))
    ELSE int16(group(raw, grp_index(keys, j)))

\* The loop over the keys: one value per key, in order.
ParsedValues(raw, keys) ==
    [j \in 1..Len(keys) |-> [value_id |-> keys[j], value |-> ParsedValue(raw, keys, j)]]

\* Pco2wConfigurationDataParticle._build_parsed_values: SampleException when
\* the record does not match, the list of values otherwise.
build_parsed_values(raw) ==
    IF MatchAt(CONFIGURATION_REGEX_MATCHER, raw, 0)
    THEN [status |-> "ok", values |-> ParsedValues(raw, particle_keys)]
    ELSE [status |-> "SampleException", values |-> <<>>]

\* The 30 fields of the example configuration string.
ReferenceFields ==
    <<67, 69, 69, 57, 48, 66, 48, 48>>    \* CEE90B00
      \o <<48, 50, 67, 55, 69, 65, 48, 48>>    \* 02C7EA00
      \o <<48, 49, 69, 49, 51, 51, 56, 48>>    \* 01E13380
      \o <<48, 65>>    \* 0A
      \o <<48, 48, 48, 69, 49, 48>>    \* 000E10
      \o <<48, 52>>    \* 04
      \o <<48, 50>>    \* 02
      \o <<48, 48, 48, 69, 49, 48>>    \* 000E10
      \o <<48, 49>>    \* 01
      \o <<48, 66>>    \* 0B
      \o <<48, 48, 48, 48, 48, 48>>    \* 000000
      \o <<48, 48>>    \* 00
      \o <<48, 68>>    \* 0D
      \o <<48, 48, 48, 48, 48, 48>>    \* 000000
      \o <<48, 48>>    \* 00
      \o <<48, 68>>    \* 0D
      \o <<48, 48, 48, 48, 48, 48>>    \* 000000
      \o <<48, 48>>    \* 00
      \o <<48, 68>>    \* 0D
      \o <<48, 55>>    \* 07
      \o <<49, 48>>    \* 10
      \o <<50, 48>>    \* 20
      \o <<70, 70>>    \* FF
      \o <<53, 52>>    \* 54
      \o <<49, 56>>    \* 18
      \o <<49, 67>>    \* 1C
      \o <<48, 49>>    \* 01
      \o <<48, 48>>    \* 00
      \o <<51, 56>>    \* 38
      \o <<49, 52>>    \* 14

\* The example configuration string: the fields, a padding of 130 zeros
\* and 284 F, and the line end.
VALID_CONFIG_STRING == ReferenceFields \o Rep(48, 130) \o Rep(70, 284) \o NEWLINE

\* The parameters of _build_param_dict in the order they are added; the
\* k-th is decoded from group k.
ParameterNames ==
    <<"LAUNCH_TIME", "START_TIME_FROM_LAUNCH", "STOP_TIME_FROM_START", "MODE_BITS",
      "SAMI_SAMPLE_INTERVAL", "SAMI_DRIVER_VERSION", "SAMI_PARAMS_POINTER",
      "DEVICE1_SAMPLE_INTERVAL", "DEVICE1_DRIVER_VERSION", "DEVICE1_PARAMS_POINTER",
      "DEVICE2_SAMPLE_INTERVAL", "DEVICE2_DRIVER_VERSION", "DEVICE2_PARAMS_POINTER",
      "DEVICE3_SAMPLE_INTERVAL", "DEVICE3_DRIVER_VERSION", "DEVICE3_PARAMS_POINTER",
      "PRESTART_SAMPLE_INTERVAL", "PRESTART_DRIVER_VERSION", "PRESTART_PARAMS_POINTER",
      "GLOBAL_CONFIGURATION", "PUMP_PULSE", "PUMP_DURATION", "SAMPLES_PER_MEASUREMENT",
      "CYCLES_BETWEEN_BLANKS", "NUMBER_REAGENT_CYCLES", "NUMBER_BLANK_CYCLES",
      "FLUSH_PUMP_INTERVAL", "BIT_SWITCHES", "NUMBER_EXTRA_PUMP_CYCLES",
      "EXTERNAL_PUMP_SETTINGS">>

\* Mutant: every parameter is formatted eight characters wide.
ParameterWidthsAllEight == [k \in 1..30 |-> 8]

\* The width each parameter is formatted to by its _int_to_hexstring call.
ParameterWidths ==
    <<8, 8, 8, 2, 6, 2, 2, 6, 2, 2, 6, 2, 2, 6, 2, 2, 6, 2, 2,
      2, 2, 2, 2, 2, 2, 2, 2, 2, 2, 2>>

\* The visibility each parameter is added with.
ParameterVisibility == [k \in 1..30 |-> "READ_ONLY"]

Registered == {ParameterNames[k] : k \in 1..Len(ParameterNames)}

\* The position of a registered parameter: its group in the record.
ParameterIndex(name) == CHOOSE k \in 1..Len(ParameterNames) : ParameterNames[k] = name

\* One uppercase hexadecimal character.
UpperHex(d) == IF d < 10 THEN 48 + d ELSE 55 + d

\* _int_to_hexstring(val, slen): the value in uppercase hexadecimal, filled
\* with zeros on the left up to slen characters.
int_to_hexstring(val, slen) ==
    LET hexstr == IF val = <<>> THEN <<48>> ELSE [i \in 1..Len(val) |-> UpperHex(val[i])]
    IN  IF Len(hexstr) >= slen THEN hexstr ELSE Rep(48, slen - Len(hexstr)) \o hexstr

\* The encode function of a descriptor: lambda x: self._int_to_hexstring(x, w).
ParameterEncode(name, value) == int_to_hexstring(value, ParameterWidths[ParameterIndex(name)])

\* The decode function of a descriptor on a match of the record:
\* lambda match: int(match.group(k), 16).
ParameterDecode(name, raw) == int16(group(raw, ParameterIndex(name)))

\* The record with the text of one parameter put in place of its group.
Embed(raw, k, text) ==
    Slice(raw, 0, GroupStart(k)) \o text
      \o Slice(raw, GroupStart(k) + ConfigurationGroups[k], Len(raw))

Unset == [known |-> FALSE, value |-> <<>>]

\* decode_all(configuration_chunk): every descriptor whose pattern matches
\* the chunk decodes its value; without a match the values stay.
decode_all(raw, values) ==
    IF MatchAt(CONFIGURATION_REGEX_MATCHER, raw, 0)
    THEN [name \in Registered |-> [known |-> TRUE, value |-> ParameterDecode(name, raw)]]
    ELSE values

\* Mutant: the encoding is handed back whatever the visibility.
encode_set_any_visibility(name, value) ==
    IF name \notin Registered
    THEN [name |-> name, value |-> value, error |-> <<"UnknownParameter">>, wire |-> <<>>]
    ELSE [name |-> name, value |-> value, error |-> <<"none">>,
          wire |-> ParameterEncode(name, value)]

\* encode_set(name, value): UnknownParameter for a name that is not
\* registered, ReadOnlyParameter for a read-only descriptor, the
\* descriptor's encoding otherwise.
encode_set(name, value) ==
    IF name \notin Registered
    THEN [name |-> name, value |-> value, error |-> <<"UnknownParameter">>, wire |-> <<>>]
    ELSE IF ParameterVisibility[ParameterIndex(name)] = "READ_ONLY"
    THEN [name |-> name, value |-> value, error |-> <<"ReadOnlyParameter">>, wire |-> <<>>]
    ELSE [name |-> name, value |-> value, error |-> <<"none">>,
          wire |-> ParameterEncode(name, value)]

\* ------------------------------------------------------------------------
\* Sample particles of the SAMI2-pCO2
\* ------------------------------------------------------------------------

\* The widths of the groups of SAMI_SAMPLE_REGEX, after the record
\* identifier.
SampleGroups == <<2, 2, 2, 8, 56, 4, 4, 2>>

\* The widths of the groups of DEV1_SAMPLE_REGEX.
Dev1Groups == <<2, 2, 2, 8, 2>>

\* Offset of group k of a sample record: the record identifier and the
\* widths of the groups before it.
RECURSIVE SampleGroupStart(_, _)
SampleGroupStart(widths, k) ==
    IF k = 1 THEN 1 ELSE SampleGroupStart(widths, k - 1) + widths[k - 1]

\* matched.group(k) of a match of a sample regex at the start of raw.
sample_group(widths, raw, k) ==
    Slice(raw, SampleGroupStart(widths, k), SampleGroupStart(widths, k) + widths[k])

\* Mutant: the groups are taken from the end of the span backwards.
light_measurements_reversed(light) ==
    [n \in 1..(Len(light) \div 4) |->
        int16(Slice(light, Len(light) - 4 * n, Len(light) - 4 * (n - 1)))]

\* [int(light[i:i+4], 16) for i in range(0, len(light), 4)]
light_measurements(light) ==
    [n \in 1..(Len(light) \div 4) |-> int16(Slice(light, 4 * (n - 1), 4 * n))]

\* The keys of the SAMI sample particle, in the order they are built.
sami_sample_keys ==
    <<"unique_id", "record_length", "record_type", "record_time", "light_measurements",
      "voltage_battery", "thermistor_raw", "checksum">>

\* The keys of the device 1 sample particle.
dev1_sample_keys == <<"unique_id", "record_length", "record_type", "record_time", "checksum">>

\* Mutant: the record is parsed without looking at the match.
build_parsed_values_dev1_unmatched(raw) ==
    [status |-> "ok",
     values |-> [j \in 1..Len(dev1_sample_keys) |->
                    [value_id |-> dev1_sample_keys[j],
                     value |-> int16(sample_group(Dev1Groups, raw, j))]]]

\* Pco2wDev1SampleDataParticle._build_parsed_values: SampleException when
\* the record does not match, one integer per key otherwise.
build_parsed_values_dev1(raw) ==
    IF MatchAt(DEV1_SAMPLE_REGEX_MATCHER, raw, 0)
    THEN [status |-> "ok",
          values |-> [j \in 1..Len(dev1_sample_keys) |->
                         [value_id |-> dev1_sample_keys[j],
                          value |-> int16(sample_group(Dev1Groups, raw, j))]]]
    ELSE [status |-> "SampleException", values |-> <<>>]

\* Pco2wSamiSampleDataParticle._build_parsed_values: SampleException when
\* the record does not match; otherwise one integer per key, and the 14
\* light measurements as an array.
build_parsed_values_sami(raw) ==
    IF MatchAt(SAMI_SAMPLE_REGEX_MATCHER, raw, 0)
    THEN [status |-> "ok",
          values |-> [j \in 1..Len(sami_sample_keys) |->
                         [value_id |-> sami_sample_keys[j],
                          value |-> IF sami_sample_keys[j] = "light_measurements"
                                    THEN light_measurements(sample_group(SampleGroups, raw, j))
                                    ELSE int16(sample_group(SampleGroups, raw, j))]]]
    ELSE [status |-> "SampleException", values |-> <<>>]

\* The particle classes of the driver and the decoder of each.
ParticleClasses ==
    {"Pco2wSamiSampleDataParticle", "Pco2wDev1SampleDataParticle",
     "Pco2wConfigurationDataParticle"}

\* The regex a particle class matches its raw data with.
ParticleMatcher(class) ==
    CASE class = "Pco2wSamiSampleDataParticle" -> SAMI_SAMPLE_REGEX_MATCHER
      [] class = "Pco2wDev1SampleDataParticle" -> DEV1_SAMPLE_REGEX_MATCHER
      [] class = "Pco2wConfigurationDataParticle" -> CONFIGURATION_REGEX_MATCHER

\* particle_class(raw)._build_parsed_values()
build_parsed_values_of(class, raw) ==
    CASE class = "Pco2wSamiSampleDataParticle" -> build_parsed_values_sami(raw)
      [] class = "Pco2wDev1SampleDataParticle" -> build_parsed_values_dev1(raw)
      [] class = "Pco2wConfigurationDataParticle" -> build_parsed_values(raw)

\* DataParticle.generate(): the particle made of the parsed values; a
\* SampleException of _build_parsed_values goes to the caller and there is
\* no particle.
generate(class, raw) ==
    LET built == build_parsed_values_of(class, raw)
    IN  IF built.status = "ok"
        THEN [error |-> <<"none">>, particles |-> <<[type |-> class, values |-> built.values]>>]
        ELSE [error |-> <<built.status>>, particles |-> <<>>]

\* Mutant: the particles of a chunk are put in front of those handed
\* downstream before.
publish_in_front(published_so_far, particles) == particles \o published_so_far

\* _driver_event(DriverAsyncEvent.SAMPLE, particle), particle by particle:
\* what was handed downstream, oldest first.
publish(published_so_far, particles) == published_so_far \o particles

\* Protocol._got_chunk of the SAMI2-pCO2 driver: the chunk is given to
\* _extract_sample once for every particle class, in this order.
got_chunk_sami(chunk) ==
    extract_sample("SamiRegularStatusDataParticle", REGULAR_STATUS_REGEX_MATCHER, chunk)
      \o extract_sample("SamiControlRecordDataParticle", CONTROL_RECORD_REGEX_MATCHER, chunk)
      \o extract_sample("Pco2wSamiSampleDataParticle", SAMI_SAMPLE_REGEX_MATCHER, chunk)
      \o extract_sample("Pco2wDev1SampleDataParticle", DEV1_SAMPLE_REGEX_MATCHER, chunk)
      \o extract_sample("Pco2wConfigurationDataParticle", CONFIGURATION_REGEX_MATCHER, chunk)

\* ------------------------------------------------------------------------
\* Result sets of the IDK (mi.idk.result_set.ResultSet)
\*
\* A result set is [header |-> [particle_object, particle_type], data |-> d],
\* d being _result_set_data: a function from the _index of a record to the
\* record [new_sequence, internal_timestamp, params].  A field the YAML
\* file leaves out is "absent" (a flag) or <<>> (a text).  A particle is
\* [is_dict, class, stream_name, internal_timestamp, new_sequence, values];
\* times are NTP seconds <<thousand millions, rest>> followed by the digits
\* of the fraction.
\* ------------------------------------------------------------------------
Digit == 48..57

\* DATE_PATTERN = r'^\d{4}-\d{2}-\d{2}T\d{2}:\d{2}:\d{2}(\.\d+)?Z?$'
DATE_MATCHER(datestr) ==
    /\ Len(datestr) >= 19
    /\ \A i \in {1, 2, 3, 4, 6, 7, 9, 10, 12, 13, 15, 16, 18, 19} : datestr[i] \in Digit
    /\ datestr[5] = 45 /\ datestr[8] = 45 /\ datestr[11] = 84
    /\ datestr[14] = 58 /\ datestr[17] = 58
    /\ LET rest == Slice(datestr, 19, Len(datestr))
           frac == IF rest # <<>> /\ rest[Len(rest)] = 90
                   THEN Slice(rest, 0, Len(rest) - 1)
                   ELSE rest
       IN  \/ frac = <<>>
           \/ Len(frac) >= 2 /\ frac[1] = 46 /\ \A i \in 2..Len(frac) : frac[i] \in Digit

\* The number two decimal digits at offset i of a text stand for.
TwoDigits(text, i) == 10 * (text[i + 1] - 48) + (text[i + 2] - 48)

IsLeap(y) == (y % 4 = 0 /\ y % 100 # 0) \/ y % 400 = 0

DaysIn(y, m) ==
    IF m = 2 THEN (IF IsLeap(y) THEN 29 ELSE 28)
    ELSE IF m \in {4, 6, 9, 11} THEN 30 ELSE 31

\* Days from 1970-01-01 to the day y-m-d of the Gregorian calendar.
DaysFromEpoch(y, m, d) ==
    LET yy == IF m <= 2 THEN y - 1 ELSE y
        era == yy \div 400
        yoe == yy - era * 400
        doy == (153 * (IF m > 2 THEN m - 3 ELSE m + 9) + 2) \div 5 + d - 1
        doe == yoe * 365 + yoe \div 4 - yoe \div 100 + doy
    IN  era * 146097 + doe - 719468

\* The digits of a fraction without its trailing zeros.
RECURSIVE StripTrailingZeros(_)
StripTrailingZeros(digits) ==
    IF digits # <<>> /\ digits[Len(digits)] = 0
    THEN StripTrailingZeros(SubSeq(digits, 1, Len(digits) - 1))
    ELSE digits

\* _string_to_ntp_date_time(datestr): the seconds from 1970-01-01T00:00:00
\* to the date, taken in one time zone without daylight saving, made into
\* NTP time (ntplib.system_to_ntp_time adds 2208988800); ValueError for a
\* text that is not in the ISO 8601 format or names no date.
string_to_ntp_date_time(datestr) ==
    IF ~DATE_MATCHER(datestr) THEN [raised |-> <<"ValueError">>, time |-> <<>>]
    ELSE LET y == 100 * TwoDigits(datestr, 0) + TwoDigits(datestr, 2)
             m == TwoDigits(datestr, 5)
             d == TwoDigits(datestr, 8)
             hh == TwoDigits(datestr, 11)
             mm == TwoDigits(datestr, 14)
             ss == TwoDigits(datestr, 17)
             rest == Slice(datestr, 20, Len(datestr))
             frac == [i \in 1..Len(SelectSeq(rest, LAMBDA c : c \in Digit)) |->
                         SelectSeq(rest, LAMBDA c : c \in Digit)[i] - 48]
         IN  IF m \notin 1..12 \/ d \notin 1..DaysIn(y, m)
                  \/ hh > 23 \/ mm > 59 \/ ss > 59
             THEN [raised |-> <<"ValueError">>, time |-> <<>>]
             ELSE LET unix == 86400 * DaysFromEpoch(y, m, d) + 3600 * hh + 60 * mm + ss
                      low == 208988800 + unix
                  IN  [raised |-> <<>>,
                       time |-> <<2 + low \div 1000000000, low % 1000000000>>
                                   \o StripTrailingZeros(frac)]

\* _verify_particle_type(particle): a dictionary passes; an object passes
\* when its class has the name the header expects.
verify_particle_type(rs, particle) ==
    particle.is_dict \/ rs.header.particle_object = particle.class

\* _verify_set(particles): as many particles as records, and every
\* particle of the expected type.
verify_set(rs, ps) ==
    /\ Cardinality(DOMAIN rs.data) = Len(ps)
    /\ \A i \in 1..Len(ps) : verify_particle_type(rs, ps[i])

\* _get_particle_header_errors(particle, particle_def): "raised" when the
\* expected time cannot be converted, else whether an error was found in
\* the time or in the stream name.
get_particle_header_errors(rs, particle, particle_def) ==
    LET particle_timestamp == particle.internal_timestamp
        expected_time == particle_def.internal_timestamp
        expected == string_to_ntp_date_time(expected_time)
        stream_error == particle.stream_name # rs.header.particle_type
    IN  IF particle_timestamp # <<>> /\ expected_time = <<>> THEN "errors"
        ELSE IF particle_timestamp = <<>> /\ expected_time # <<>> THEN "errors"
        ELSE IF particle_timestamp # <<>> /\ expected.raised # <<>> THEN "raised"
        ELSE IF particle_timestamp # <<>> /\ particle_timestamp # expected.time THEN "errors"
        ELSE IF stream_error THEN "errors" ELSE "none"

\* A new-sequence flag as it is compared: left out or null, it is False.
new_sequence_flag(flag) == flag = "True"

\* pv[key]: the value of the last entry of the particle with that key.
LastValue(particle_values, key) ==
    LET at == {i \in 1..Len(particle_values) : particle_values[i].value_id = key}
    IN  particle_values[CHOOSE i \in at : \A j \in at : j <= i].value

\* Mutant: the new-sequence flags are not compared.
get_particle_data_errors_without_flag(particle, particle_def) ==
    LET particle_values == particle.values
        expected_keys == DOMAIN particle_def.params
        count(key) == Cardinality({i \in 1..Len(particle_values) :
                                      particle_values[i].value_id = key})
        same_keys == /\ Len(particle_values) = Cardinality(expected_keys)
                     /\ \A key \in expected_keys : count(key) = 1
    IN  \/ ~same_keys
        \/ \E key \in expected_keys :
              particle_def.params[key] # LastValue(particle_values, key)

\* _get_particle_data_errors(particle, particle_def): whether an error was
\* found in the new-sequence flag, in the keys (the sorted list of the
\* particle's keys is the sorted list of the record's) or in a value.
get_particle_data_errors(particle, particle_def) ==
    LET particle_values == particle.values
        expected_keys == DOMAIN particle_def.params
        count(key) == Cardinality({i \in 1..Len(particle_values) :
                                      particle_values[i].value_id = key})
        same_keys == /\ Len(particle_values) = Cardinality(expected_keys)
                     /\ \A key \in expected_keys : count(key) = 1
    IN  \/ new_sequence_flag(particle.new_sequence)
              # new_sequence_flag(particle_def.new_sequence)
        \/ ~same_keys
        \/ \E key \in expected_keys :
              particle_def.params[key] # LastValue(particle_values, key)

\* One turn of the loop of _verify_particles: the particle at `index`.
verify_particle(rs, ps, index) ==
    IF index \notin DOMAIN rs.data THEN "errors"
    ELSE LET header == get_particle_header_errors(rs, ps[index], rs.data[index])
         IN  IF header = "raised" THEN "raised"
             ELSE IF header = "errors" \/ get_particle_data_errors(ps[index], rs.data[index])
                  THEN "errors"
                  ELSE "none"

\* _verify_particles(particles): every particle is looked at; an exception
\* ends the loop.
verify_particles(rs, ps) ==
    IF \E i \in 1..Len(ps) : verify_particle(rs, ps, i) = "raised" THEN "ValueError"
    ELSE IF \A i \in 1..Len(ps) : verify_particle(rs, ps, i) = "none" THEN "True"
    ELSE "False"

\* ResultSet.verify(particles)
verify(rs, ps) == IF verify_set(rs, ps) THEN verify_particles(rs, ps) ELSE "False"

\* ------------------------------------------------------------------------
\* Packaging of a driver (mi.idk.package_driver)
\*
\* A path is the sequence of its components; a zip entry name that ends in
\* a slash has an empty last component.
\* ------------------------------------------------------------------------

\* PackageManifest.manifest_file
manifest_file == "file.lst"

\* PackageDriver.string_file
string_file == "strings.yml"

\* PackageDriver.log_file
log_file == "qualification.log"

\* The directories the metadata and the generators name.
idk_dir == <<"idk">>

resource_dir == <<"resource">>

\* EggGenerator.save(): the path of the egg it built.
egg_file == <<"dist", "driver.egg">>

\* os.path.basename
basename(path) == path[Len(path)]

\* A call _add_file(source, destdir, description); `kind` tells whether
\* the source is a file or a directory on disk.  No destdir is "".
AddFileCall(source, kind, destdir, description) ==
    [source |-> source, kind |-> kind, destdir |-> destdir, description |-> description]

\* _add_file: dest = filename, or "%s/%s" % (destdir, filename).
dest_of(call) ==
    IF call.destdir = "" THEN <<basename(call.source)>>
    ELSE <<call.destdir, basename(call.source)>>

\* PackageManifest.add_file: self.data[source] = description.
add_file(data, source, description) ==
    {e \in data : e.dest # source} \cup {[dest |-> source, description |-> description]}

\* ZipFile.write(source, dest): the name of the entry it appends; the name
\* of a directory gets a slash at its end.
zip_entry_name(call) ==
    IF call.kind = "directory" THEN dest_of(call) \o <<"">> ELSE dest_of(call)

\* os.path.exists(str_path)
string_file_exists(ls) ==
    ls.exists /\ \E i \in 1..Len(ls.files) : ls.files[i].name = string_file

\* _store_resource_files: every entry of the resource directory but the
\* string file, in the order os.listdir gives them.
store_resource_files(ls) ==
    IF ls.exists
    THEN LET others == SelectSeq(ls.files, LAMBDA f : f.name # string_file)
         IN  [i \in 1..Len(others) |->
                 AddFileCall(resource_dir \o <<others[i].name>>, others[i].kind, "resource",
                             "described by the developer")]
    ELSE <<>>

\* _store_package_files: the calls of _add_file it makes, in order.
store_package_files(ls) ==
    <<AddFileCall(egg_file, "file", "egg", "python driver egg package"),
      AddFileCall(idk_dir \o <<"metadata.yml">>, "file", "", "package metadata"),
      AddFileCall(idk_dir \o <<log_file>>, "file", "", "qualification tests results")>>
      \o (IF string_file_exists(ls)
          THEN <<AddFileCall(resource_dir \o <<string_file>>, "file", "resource",
                             "driver string file")>>
          ELSE <<>>)
      \o store_resource_files(ls)
      \o <<AddFileCall(idk_dir \o <<manifest_file>>, "file", "", "package manifest file")>>

\* run: len(sys.argv) == 2 and (sys.argv[1] == "--no-test")
no_test(args) == Len(args) = 2 /\ args[2] = "--no-test"

\* Mutant: run packages the driver whatever the tests said.
run_packages_always(args, result) == TRUE

\* run: package_driver() is called with --no-test, and otherwise when
\* run_qualification_tests() returned True.
run_packages(args, result) == no_test(args) \/ result = "passed"

\* ------------------------------------------------------------------------
\* Loading of a result set (mi.idk.result_set)
\*
\* A value that may be missing is a sequence of no or one element: <<>> is
\* what dict.get returns for a key that is not there.
\* ------------------------------------------------------------------------

\* No result set file has been read.
NoDocument == [header |-> <<>>, data |-> <<>>]

NotConstructed == [raised |-> <<"not called">>]

\* _set_result_set: `if not self._result_set_header` fails for a header
\* that is missing and for an empty one; the two checks of particle_object
\* and particle_type make an IOError and do not raise it.
header_accepted(header) == header # <<>> /\ DOMAIN header[1] # {}

\* _set_result_set: the loop over the records, from record k on, `stored`
\* being self._result_set_data so far.
RECURSIVE store_records(_, _, _)
store_records(data, k, stored) ==
    IF k > Len(data) THEN [raised |-> <<>>, data |-> stored]
    ELSE IF data[k].index = <<>>
         THEN [raised |-> <<"IOError", "Particle definition missing _index">>, data |-> stored]
    ELSE IF data[k].index[1] \in DOMAIN stored
         THEN [raised |-> <<"IOError", "Duplicate definition found for index">>, data |-> stored]
    ELSE store_records(data, k + 1, stored @@ (data[k].index[1] :> data[k].record))

\* _set_result_set(result_set): the header and the records it stores, or
\* the error it raises.
set_result_set(doc) ==
    IF ~header_accepted(doc.header)
    THEN [raised |-> <<"IOError", "Missing result set header">>]
    ELSE IF doc.data = <<>> \/ doc.data[1] = <<>>
         THEN [raised |-> <<"IOError", "Missing result set data">>]
    ELSE LET stored == store_records(doc.data[1], 1, <<>>)
         IN  IF stored.raised # <<>> THEN [raised |-> stored.raised]
             ELSE [raised |-> <<>>, header |-> doc.header[1], data |-> stored.data]

\* ------------------------------------------------------------------------
\* The report of a verification (mi.idk.result_set)
\*
\* A message is a tuple: its text, then the numbers formatted into it.  A
\* line of the report is a message with its indent.
\* ------------------------------------------------------------------------

\* Mutant: _clear_report leaves the buffer as it is.
clear_report_kept(lines) == lines

\* _clear_report: self._report = []
clear_report(lines) == <<>>

\* _add_to_report(messages, indent): one line is appended per message.
add_to_report(lines, messages, indent) ==
    lines \o [i \in 1..Len(messages) |-> [indent |-> indent, message |-> messages[i]]]

\* "%s%s" % (ind, message), ind being four blanks per indent.
line_text(line) == Rep(<<"    ">>, line.indent) \o <<line.message>>

\* "\n".join(self._report)
RECURSIVE join(_)
join(lines) ==
    IF lines = <<>> THEN <<>>
    ELSE IF Len(lines) = 1 THEN line_text(lines[1])
    ELSE line_text(lines[1]) \o << <<"\n">> >> \o join(Tail(lines))

\* ResultSet.report(): the text of the report, or None (<<>>) when the
\* buffer is empty.
report_text(lines) == IF Len(lines) > 0 THEN <<join(lines)>> ELSE <<>>

\* _verify_set: the errors it collects, one for the count and one for
\* every particle of another type.
set_errors(rs, ps) ==
    (IF Cardinality(DOMAIN rs.data) # Len(ps)
     THEN << <<"result set records != particles to verify",
               Cardinality(DOMAIN rs.data), Len(ps)>> >>
     ELSE <<>>)
      \o [i \in 1..Len(SelectSeq(ps, LAMBDA p : ~verify_particle_type(rs, p))) |->
             <<"particle type mismatch">>]

\* _verify_particles: the errors collected for the particle at `index`;
\* a message stands for the messages of the function that found errors.
particle_errors(rs, ps, index) ==
    IF index \notin DOMAIN rs.data
    THEN << <<"no particle result defined for index", index>> >>
    ELSE (IF get_particle_header_errors(rs, ps[index], rs.data[index]) = "errors"
          THEN << <<"errors of _get_particle_header_errors">> >> ELSE <<>>)
          \o (IF get_particle_data_errors(ps[index], rs.data[index])
              THEN << <<"errors of _get_particle_data_errors">> >> ELSE <<>>)

\* _verify_particles: what the loop adds to the report from the particle
\* at `index` on; an exception ends it.
RECURSIVE particles_report(_, _, _, _)
particles_report(lines, rs, ps, index) ==
    IF index > Len(ps) THEN lines
    ELSE IF verify_particle(rs, ps, index) = "raised" THEN lines
    ELSE IF verify_particle(rs, ps, index) = "errors"
         THEN particles_report(
                  add_to_report(
                      add_to_report(lines, << <<"Failed particle validation for index",
                                                index>> >>, 0),
                      particle_errors(rs, ps, index), 1),
                  rs, ps, index + 1)
    ELSE particles_report(lines, rs, ps, index + 1)

\* ResultSet.verify(particles): the report buffer it leaves.
verify_report(lines, rs, ps) ==
    IF verify_set(rs, ps)
    THEN particles_report(clear_report(lines), rs, ps, 1)
    ELSE add_to_report(add_to_report(clear_report(lines),
                                     << <<"Header verification failure">> >>, 0),
                       set_errors(rs, ps), 1)

\* ------------------------------------------------------------------------
\* State
\* ------------------------------------------------------------------------
VARIABLES
    profile,    \* the transport: driver variant, pieces it delivers, stream bound
    stream,     \* every byte fed so far (history)
    buffer,     \* RawBuffer of the chunker
    chunks,     \* unconsumed ChunkRefs, offsets into buffer
    out,        \* what left the buffer, in order: chunks and discarded bytes
    discarded,  \* ranges of the stream that lost an overlap at some feed (history)
    current_state,  \* of the Workhorse protocol state machine
    disable_autosample_recover,
    executing,  \* per caller of on_event: the handler it is executing
    outcome,    \* per caller of on_event: what its last call handed back
    got,        \* per chunk given to _got_chunk: particles, state, event raised
    handler_failed, \* a call of on_event has failed in its handler (history)
    sami_state,     \* current state of the SAMI protocol state machine
    pending,    \* the PendingCommands that are live, oldest first
    sami_outcome,   \* what the last on_event of the SAMI protocol handed back
    entered_from,   \* the state and the event a sampling state was entered from
    table,      \* a transition table under construction
    registered, \* per (state, event): the handler last given to add_handler (history)
    dispatched, \* the last on_event on that table: pair, handler run, handler expected
    raw_data,   \* the configuration record given to the particle and the dictionary
    parsed,     \* what _build_parsed_values made of raw_data
    request,    \* the parameter and the value a caller asks to encode
    encoded,    \* what the descriptor's encode made of the request
    decoded,    \* what the descriptor's decode made of the encoded text
    set_result, \* what encode_set handed back for the request
    param_values,   \* the values of the parameter dictionary
    generated,  \* per particle class: what generate() made of raw_data
    published,  \* the particles handed downstream, oldest first
    result_set, \* the ResultSet a test has read from its file
    to_verify,  \* the particles the test gives to verify
    verified,   \* what verify handed back
    report,     \* the lines of the ResultSet's report buffer
    previous,   \* what the verify call before the last handed back and left as report
    document,   \* what yaml.load made of a result set file
    constructed,    \* what became of ResultSet(result_file_path)
    argv,       \* sys.argv of the package_driver process
    listing,    \* the driver's resource directory: whether it exists, os.listdir of it
    qualification,  \* the qualification tests: not run, passed or failed
    package_pc, \* where PackageDriver.run stands
    todo,       \* the calls of _add_file that _store_package_files has still to make
    adding,     \* the call of _add_file under way, its file in the manifest already
    manifest,   \* PackageManifest.data: destination and description
    manifest_saved, \* the destinations in the manifest file on disk
    archive,    \* the entries of the zip archive, in the order they were written
    package_log \* the destinations recorded and the entries written, in order (history)

chunkerVars == <<profile, stream, buffer, chunks, out, discarded>>

workhorseVars ==
    <<current_state, disable_autosample_recover, executing, outcome, got, handler_failed>>

samiVars == <<sami_state, pending, sami_outcome, entered_from>>

tableVars == <<table, registered, dispatched>>

codecVars == <<raw_data, parsed, request, encoded, decoded, set_result, param_values>>

particleVars == <<generated, published>>

idkVars == <<result_set, to_verify, verified, report, previous, document, constructed>>

packageVars ==
    <<argv, listing, qualification, package_pc, todo, adding, manifest, manifest_saved,
      archive, package_log>>

vars ==
    <<chunkerVars, workhorseVars, samiVars, tableVars, codecVars, particleVars, idkVars,
      packageVars>>

\* Callers of on_event: the command callback and the inbound-data callback.
Callers == {"command", "data"}

\* Bytes the transport delivers: a length byte of 7 (long frames) or of 3
\* (short frames), the sync byte, zero, and the markers of the text records.
LongBytes == {0, 7, SYNC}

ShortBytes == {0, 3, SYNC}

MixedBytes == {0, SYNC, SysConfigMarker, CompassMarker}

Pieces(bytes) == UNION {[1..n -> bytes] : n \in 1..MaxFeed}

\* Records of the SAMI on the wire, cut where the transport cuts them.
\* A device-1 record `*` 0000 11 00000000 00 CR in two pieces:
Dev1Head == <<Star>> \o Rep(48, 4) \o <<49, 49>> \o Rep(48, 1)

Dev1Tail == Rep(48, 9) \o NEWLINE

\* A sample record `*` 0000 04 0..0 CR in two pieces:
SampleHead == <<Star>> \o Rep(48, 4) \o <<48, 52>>

SampleTail == Rep(48, 74) \o NEWLINE

\* Bytes of no record: x, a line end, the start of a status string.
SamiNoise == <<120>> \o NEWLINE \o <<Colon, 48, 48>>

SamiProfiles ==
    {[driver |-> "sami", pieces |-> {Dev1Head, Dev1Tail, SamiNoise},
      maxStream |-> MaxDev1Stream],
     [driver |-> "sami", pieces |-> {SampleHead, SampleTail, Dev1Head \o Dev1Tail},
      maxStream |-> MaxSampleStream]}

Profiles ==
    {[driver |-> "150", pieces |-> Pieces(LongBytes), maxStream |-> MaxLongStream],
     [driver |-> "150", pieces |-> Pieces(ShortBytes), maxStream |-> MaxShortStream]}
      \cup {[driver |-> d, pieces |-> Pieces(MixedBytes), maxStream |-> MaxMixedStream] :
              d \in {"150", "300"}}
      \cup SamiProfiles

TruncatedProfiles ==
    {[driver |-> "150", pieces |-> Pieces(LongBytes), maxStream |-> MaxTruncatedStream]}

\* Whole records on the wire: a PD0 ensemble, an ensemble too short to
\* decode, a system configuration, a compass calibration, a noise byte.
WireRecords ==
    {<<SYNC, SYNC, 2, 0>>, <<SYNC, SYNC, 0, 0>>, <<SysConfigMarker, 0>>,
     <<CompassMarker, 0, 0>>, <<0>>}

ProtocolProfiles ==
    {[driver |-> d, pieces |-> WireRecords, maxStream |-> MaxProtocolStream] : d \in {"150", "300"}}

InitChunker(P) ==
    /\ profile \in P
    /\ stream = <<>>
    /\ buffer = <<>>
    /\ chunks = <<>>
    /\ out = <<>>
    /\ discarded = {}

\* TeledyneProtocol.__init__: the state machine starts in UNKNOWN.
InitProtocol(D) ==
    /\ current_state = "UNKNOWN"
    /\ disable_autosample_recover \in D
    /\ executing = [c \in Callers |-> Idle]
    /\ outcome = [c \in Callers |-> NoOutcome]
    /\ got = <<>>
    /\ handler_failed = FALSE

\* Protocol.__init__ of the SAMI driver: the state machine is started in
\* UNKNOWN and no command is pending.
InitSami ==
    /\ sami_state = "UNKNOWN"
    /\ pending = <<>>
    /\ sami_outcome = NoOutcome
    /\ entered_from = [state |-> "none", event |-> "none"]

NoDispatch == [state |-> "none", event |-> "none", handler |-> "none", expected |-> "none"]

\* Protocol.__init__ has built the table; every pair has the handler the
\* base class or the driver gave it, or none.
InitTable ==
    /\ table = SamiTable
    /\ registered = [p \in SamiStates \X SamiEvents |->
                        IF Lookup(SamiTable, p[1], p[2]) = {}
                        THEN "none"
                        ELSE CHOOSE h \in Lookup(SamiTable, p[1], p[2]) : TRUE]
    /\ dispatched = NoDispatch

NoRequest == [name |-> "none", value |-> <<>>]

NoText == [name |-> "none", value |-> <<>>, text |-> <<>>]

NoValue == [name |-> "none", value |-> <<>>, error |-> <<"none">>]

NoResult == [name |-> "none", value |-> <<>>, error |-> <<"none">>, wire |-> <<>>]

NotParsed == [status |-> "none", values |-> <<>>]

\* Nothing is asked of the codec or of the parameter dictionary.
InitCodecIdle ==
    /\ raw_data = <<>>
    /\ parsed = NotParsed
    /\ request = NoRequest
    /\ encoded = NoText
    /\ decoded = NoValue
    /\ set_result = NoResult
    /\ param_values = [name \in Registered |-> Unset]

NotGenerated == [error |-> <<"not called">>, particles |-> <<>>]

\* No particle was asked for and none was handed downstream.
InitParticles ==
    /\ generated = [class \in ParticleClasses |-> NotGenerated]
    /\ published = <<>>

\* No test has read a result set.
InitIdk ==
    /\ result_set = [header |-> [particle_object |-> "none", particle_type |-> "none"],
                     data |-> <<>>]
    /\ to_verify = <<>>
    /\ verified = "none"
    /\ report = <<>>
    /\ previous = <<>>
    /\ document = NoDocument
    /\ constructed = NotConstructed

\* package_driver has not been started.
InitPackageIdle ==
    /\ argv = <<>>
    /\ listing = [exists |-> FALSE, files |-> <<>>]
    /\ qualification = "not run"
    /\ package_pc = "idle"
    /\ todo = <<>>
    /\ adding = <<>>
    /\ manifest = {}
    /\ manifest_saved = {}
    /\ archive = <<>>
    /\ package_log = <<>>

InitEngine ==
    /\ InitSami /\ InitTable /\ InitCodecIdle /\ InitParticles /\ InitIdk /\ InitPackageIdle

Init == InitChunker(Profiles) /\ InitProtocol({FALSE}) /\ InitEngine

InitTruncated == InitChunker(TruncatedProfiles) /\ InitProtocol({FALSE}) /\ InitEngine

InitWorkhorse == InitChunker(ProtocolProfiles) /\ InitProtocol(BOOLEAN) /\ InitEngine

\* The SAMI protocol on its own: nothing is fed.
SilentProfiles == {[driver |-> "sami", pieces |-> {}, maxStream |-> 0]}

InitSamiProtocol == InitChunker(SilentProfiles) /\ InitProtocol({FALSE}) /\ InitEngine

\* feed(new_bytes): append, then re-run the recognizer set over the buffer.
Feed ==
    \E new_bytes \in profile.pieces :
        /\ Len(stream) + Len(new_bytes) <= profile.maxStream
        /\ stream' = stream \o new_bytes
        /\ buffer' = buffer \o new_bytes
        /\ chunks' = Resolve(Sieve(profile.driver, buffer'))
        /\ LET pool == Sieve(profile.driver, buffer')
               base == Len(stream) - Len(buffer)
               lost == {i \in 1..Len(pool) : \A j \in 1..Len(chunks') : chunks'[j] # pool[i]}
           IN  discarded' = discarded \cup {<<base + pool[i][1], base + pool[i][2]>> : i \in lost}
        /\ UNCHANGED <<profile, out, workhorseVars, samiVars, tableVars, codecVars, particleVars, idkVars, packageVars>>

Noise(bytes) == IF bytes = <<>> THEN <<>> ELSE <<[kind |-> "noise", bytes |-> bytes]>>

\* next_chunk() returning a chunk: the earliest unconsumed chunk is handed
\* out and the buffer is trimmed.
next_chunk ==
    /\ chunks # <<>>
    /\ LET c == Head(chunks)
           rest == Tail(chunks)
           cut == EvictTo(profile.driver, buffer, c, rest)
       IN  /\ out' = out \o Noise(Slice(buffer, 0, c[1]))
                        \o <<[kind |-> "chunk", bytes |-> Slice(buffer, c[1], c[2]),
                              start |-> Len(stream) - Len(buffer) + c[1],
                              end |-> Len(stream) - Len(buffer) + c[2]]>>
                        \o Noise(Slice(buffer, c[2], cut))
           /\ buffer' = Slice(buffer, cut, Len(buffer))
           /\ chunks' = Shift(rest, cut)
    /\ UNCHANGED <<profile, stream, discarded>>

\* The chunker drained on its own.
NextChunk == next_chunk /\ UNCHANGED <<workhorseVars, samiVars, tableVars, codecVars, particleVars, idkVars, packageVars>>

\* The inbound-data callback: the next chunk is taken from the chunker and
\* given to _got_chunk, which publishes its particles and, for a PD0
\* particle seen in COMMAND, calls on_event(RECOVER_AUTOSAMPLE) itself.
GotData ==
    /\ executing["data"] = Idle
    /\ next_chunk
    /\ LET chunk == Slice(buffer, Head(chunks)[1], Head(chunks)[2])
           g == got_chunk(profile.driver, chunk, disable_autosample_recover, current_state)
           h == Lookup(WorkhorseTable(profile.driver), current_state, g.event)
       IN  /\ got' = Append(got, [particles |-> g.particles, state |-> current_state,
                                  event |-> g.event])
           /\ IF g.event = "none"
              THEN UNCHANGED <<executing, outcome>>
              ELSE IF h = {}
                   THEN /\ outcome' = [outcome EXCEPT !["data"] = Unhandled(current_state, g.event)]
                        /\ UNCHANGED executing
                   ELSE /\ \E handler \in h :
                              executing' = [executing EXCEPT !["data"] =
                                  [handler |-> handler, event |-> g.event,
                                   state |-> current_state]]
                        /\ UNCHANGED outcome
    /\ UNCHANGED <<current_state, disable_autosample_recover, handler_failed, samiVars,
                   tableVars, codecVars, particleVars, idkVars, packageVars>>

\* The command callback calls on_event(event): the handler registered for
\* (current state, event) starts, or the call fails with UnhandledEvent.
RaiseEvent ==
    \E event \in WorkhorseEvents \ {"RECOVER_AUTOSAMPLE"} :
        /\ executing["command"] = Idle
        /\ LET h == Lookup(WorkhorseTable(profile.driver), current_state, event)
           IN  IF h = {}
               THEN /\ outcome' = [outcome EXCEPT !["command"] = Unhandled(current_state, event)]
                    /\ UNCHANGED executing
               ELSE /\ \E handler \in h :
                          executing' = [executing EXCEPT !["command"] =
                              [handler |-> handler, event |-> event, state |-> current_state]]
                    /\ UNCHANGED outcome
        /\ UNCHANGED <<chunkerVars, current_state, disable_autosample_recover, got,
                       handler_failed, samiVars, tableVars, codecVars, particleVars, idkVars, packageVars>>

\* The handler a caller is executing returns and on_event completes.
HandlerReturn ==
    \E c \in Callers :
        /\ executing[c] # Idle
        /\ \E ret \in WorkhorseReturns(executing[c].handler) :
              LET done == Completed(executing[c], current_state, ret)
              IN  /\ current_state' = done.after
                  /\ outcome' = [outcome EXCEPT ![c] = done]
                  /\ handler_failed' = (handler_failed \/ done.error # <<"none">>)
        /\ executing' = [executing EXCEPT ![c] = Idle]
        /\ UNCHANGED <<chunkerVars, disable_autosample_recover, got, samiVars, tableVars,
                       codecVars, particleVars, idkVars, packageVars>>

\* on_event(event) of the SAMI protocol, its callers funnelled one at a
\* time: the handler registered for (current state, event) runs and a
\* non-null next_state becomes the current state; without a handler the
\* call fails with UnhandledEvent.  `cmds` is the pending list as the
\* engine left it before the handler ran.
on_event_sami(event, cmds) ==
    LET h == Lookup(table, sami_state, event)
    IN  IF h = {}
        THEN /\ sami_outcome' = Unhandled(sami_state, event)
             /\ UNCHANGED <<sami_state, pending, entered_from>>
        ELSE \E handler \in h : \E ret \in SamiReturns(handler) :
                LET done == Completed([handler |-> handler, event |-> event,
                                       state |-> sami_state], sami_state, ret)
                IN  /\ sami_state' = done.after
                    /\ sami_outcome' = done
                    /\ entered_from' =
                          IF done.after \in SamplingStates /\ sami_state \notin SamplingStates
                          THEN [state |-> sami_state, event |-> event]
                          ELSE entered_from
                    /\ IF IssuesCommand(handler)
                       THEN \E n \in 0..MaxRetries : pending' = Append(cmds, Armed(n))
                       ELSE pending' = cmds

\* A command event raised by the driver's caller or by the scheduler.
SamiEvent ==
    /\ \E event \in SamiCommandEvents :
          on_event_sami(event, pending)
    /\ UNCHANGED <<chunkerVars, workhorseVars, tableVars, codecVars, particleVars, idkVars, packageVars>>

\* The sample the instrument was asked for arrives: the pending command has
\* its response and SUCCESS is raised.
SampleArrives ==
    /\ on_event_sami("SUCCESS", <<>>)
    /\ UNCHANGED <<chunkerVars, workhorseVars, tableVars, codecVars, particleVars, idkVars, packageVars>>

\* The deadline of the waiting command passes: TIMEOUT is raised.
TimerExpires ==
    /\ \E i \in 1..Len(pending) : pending[i].waiting
    /\ on_event_sami("TIMEOUT", Expire(pending))
    /\ UNCHANGED <<chunkerVars, workhorseVars, tableVars, codecVars, particleVars, idkVars, packageVars>>

Next == Feed \/ NextChunk

Spec == Init /\ [][Next]_vars

\* The chunker fed a stream long enough to complete a long PD0 frame.
SpecTruncated == InitTruncated /\ [][Next]_vars

NextWorkhorse == Feed \/ GotData \/ RaiseEvent \/ HandlerReturn

\* The Workhorse protocol: its chunker, its inbound-data callback and its
\* state machine, driven by the transport and by the command callback.
SpecWorkhorse == InitWorkhorse /\ [][NextWorkhorse]_vars

\* The connection is closed: SHUTDOWN is raised in whatever state the
\* machine is in.
ConnectionClosed ==
    /\ on_event_sami("SHUTDOWN", pending)
    /\ UNCHANGED <<chunkerVars, workhorseVars, tableVars, codecVars, particleVars, idkVars, packageVars>>

NextSami == SamiEvent \/ SampleArrives \/ TimerExpires \/ ConnectionClosed

\* The SAMI protocol state machine driven by its callers, by arriving
\* samples and by the command timer.
SpecSami == InitSamiProtocol /\ [][NextSami]_vars

\* Texts of a bit-field byte as an instrument may send it: digits of
\* either case with the low and the high bits set and clear.
BitFieldDigits == {48, 49, 55, 56, 65, 70, 97}

ModeTexts == {<<a, b>> : a \in BitFieldDigits, b \in BitFieldDigits}

GlobalTexts == {<<48, 55>>, <<48, 48>>, <<56, 48>>, <<56, 55>>, <<48, 56>>, <<70, 70>>}

\* Configuration records: the example string with its mode byte and its
\* global configuration byte replaced, one without its line end and one
\* with a character that is no hexadecimal digit.
ConfigurationRecords ==
    {Embed(Embed(VALID_CONFIG_STRING, 4, m), 20, g) : m \in ModeTexts, g \in GlobalTexts}
      \cup {Slice(VALID_CONFIG_STRING, 0, Len(VALID_CONFIG_STRING) - 1),
            Embed(VALID_CONFIG_STRING, 4, <<48, 71>>)}

\* Values asked to be encoded: 0, 0x0A, 0xFF, 0x100, 0xFFFFFF, 0x1000000,
\* 0xFFFFFFFF and 0x100000000.
RequestValues ==
    {<<>>, <<10>>, <<15, 15>>, <<1, 0, 0>>, <<15, 15, 15, 15, 15, 15>>,
     <<1, 0, 0, 0, 0, 0, 0>>, <<15, 15, 15, 15, 15, 15, 15, 15>>,
     <<1, 0, 0, 0, 0, 0, 0, 0, 0>>}

\* Requests for the registered parameters and for a name that is not one.
Requests ==
    {[name |-> n, value |-> v] : n \in Registered \cup {"NOT_A_PARAMETER"}, v \in RequestValues}

\* Either a configuration record has arrived, or a caller has a request
\* and the instrument holds the example configuration.
InitCodec ==
    /\ parsed = NotParsed
    /\ encoded = NoText
    /\ decoded = NoValue
    /\ set_result = NoResult
    /\ param_values = [name \in Registered |-> Unset]
    /\ \/ raw_data \in ConfigurationRecords /\ request = NoRequest
       \/ raw_data = VALID_CONFIG_STRING /\ request \in Requests

InitConfiguration ==
    /\ InitChunker(SilentProfiles) /\ InitProtocol({FALSE})
    /\ InitSami /\ InitTable /\ InitCodec /\ InitParticles /\ InitIdk /\ InitPackageIdle

\* The configuration record is made into a particle.
BuildParsedValues ==
    /\ parsed = NotParsed
    /\ parsed' = build_parsed_values(raw_data)
    /\ UNCHANGED <<raw_data, request, encoded, decoded, set_result, param_values,
                   chunkerVars, workhorseVars, samiVars, tableVars, particleVars, idkVars, packageVars>>

\* The configuration record is given to the parameter dictionary.
DecodeAll ==
    /\ param_values' = decode_all(raw_data, param_values)
    /\ param_values' # param_values
    /\ UNCHANGED <<raw_data, parsed, request, encoded, decoded, set_result,
                   chunkerVars, workhorseVars, samiVars, tableVars, particleVars, idkVars, packageVars>>

\* The encode function of the requested parameter's descriptor is applied.
Encode ==
    /\ request.name \in Registered
    /\ encoded = NoText
    /\ encoded' = [name |-> request.name, value |-> request.value,
                   text |-> ParameterEncode(request.name, request.value)]
    /\ UNCHANGED <<raw_data, parsed, request, decoded, set_result, param_values,
                   chunkerVars, workhorseVars, samiVars, tableVars, particleVars, idkVars, packageVars>>

\* The instrument sends its configuration with the encoded text in the
\* parameter's place, and the decode function of the descriptor is applied
\* to it.
Decode ==
    /\ encoded # NoText
    /\ decoded = NoValue
    /\ LET raw == Embed(raw_data, ParameterIndex(encoded.name), encoded.text)
       IN  decoded' =
              IF MatchAt(CONFIGURATION_REGEX_MATCHER, raw, 0)
              THEN [name |-> encoded.name, value |-> ParameterDecode(encoded.name, raw),
                    error |-> <<"none">>]
              ELSE [name |-> encoded.name, value |-> <<>>, error |-> <<"no match">>]
    /\ UNCHANGED <<raw_data, parsed, request, encoded, set_result, param_values,
                   chunkerVars, workhorseVars, samiVars, tableVars, particleVars, idkVars, packageVars>>

\* encode_set(name, value) for the request.
EncodeSet ==
    /\ request # NoRequest
    /\ set_result = NoResult
    /\ set_result' = encode_set(request.name, request.value)
    /\ UNCHANGED <<raw_data, parsed, request, encoded, decoded, param_values,
                   chunkerVars, workhorseVars, samiVars, tableVars, particleVars, idkVars, packageVars>>

NextConfiguration == BuildParsedValues \/ DecodeAll \/ Encode \/ Decode \/ EncodeSet

\* The configuration record of the SAMI2-pCO2 decoded into a particle and
\* into the parameter dictionary, and the dictionary asked to encode.
SpecConfiguration == InitConfiguration /\ [][NextConfiguration]_vars

\* The pairs and the handlers of the driver's own registrations, and the
\* pair of the base table the driver's ACQUIRE_SAMPLE goes through.
TableStates == {"COMMAND", "POLLED_SAMPLE"}

TableEvents == {"ACQUIRE_SAMPLE", "SUCCESS"}

TableHandlers ==
    {"_handler_command_acquire_sample", "_handler_sample_success", "_handler_sample_timeout"}

\* add_handler(state, event, handler) called on the table, whether or not
\* the pair already has a handler.
AddHandler ==
    \E state \in TableStates, event \in TableEvents, handler \in TableHandlers :
        /\ table' = add_handler(table, state, event, handler)
        /\ registered' = [registered EXCEPT ![<<state, event>>] = handler]
        /\ UNCHANGED <<dispatched, chunkerVars, workhorseVars, samiVars, codecVars, particleVars, idkVars, packageVars>>

\* on_event(event) in `state` on the table as it stands: the handler of
\* the pair is looked up and runs.
Dispatch ==
    \E state \in TableStates, event \in TableEvents :
        /\ \E handler \in Lookup(table, state, event) :
              dispatched' = [state |-> state, event |-> event, handler |-> handler,
                             expected |-> registered[<<state, event>>]]
        /\ UNCHANGED <<table, registered, chunkerVars, workhorseVars, samiVars, codecVars, particleVars, idkVars, packageVars>>

NextTable == AddHandler \/ Dispatch

\* A transition table under construction: handlers are registered, again
\* and again for the same pairs, and events are dispatched in between.
SpecTable == InitSamiProtocol /\ [][NextTable]_vars

\* The example records of the driver's documentation: a SAMI sample
\* record and a device 1 sample record, each with its line end.
VALID_SAMPLE_STRING ==
    <<42, 53, 52, 50, 55, 48, 53, 67, 69, 69, 57, 49, 67, 67, 56, 48, 48, 52, 48, 48, 48,
      49, 57, 48, 57, 54, 50, 48, 54, 56, 48, 48, 55, 51, 48, 48, 55, 52, 67, 50, 67, 69,
      48, 52, 50, 55, 52, 48, 48, 51, 66, 48, 48, 49, 56, 48, 57, 54, 49, 48, 54, 56, 48,
      48, 55, 51, 50, 48, 55, 52, 69, 48, 68, 56, 50, 48, 54, 54, 49, 50, 52>> \o NEWLINE

VALID_DEV1_STRING ==
    <<42, 53, 52, 48, 55, 49, 49, 67, 69, 69, 57, 49, 68, 69, 50, 67, 69>> \o NEWLINE

\* A record with the byte at offset i replaced.
Replaced(raw, i, byte) == [n \in 1..Len(raw) |-> IF n = i + 1 THEN byte ELSE raw[n]]

\* What a caller may hand to a particle class: a record as it is, followed
\* by more bytes, in lower case, without its line end, with another first
\* byte, with a character that is no hexadecimal digit, with another
\* record type or with an F at offset 15, the first character of the light
\* measurements of a sample record; and nothing at all.
Variants(raw) ==
    {raw, raw \o <<Star>>, Replaced(raw, 7, 99),
     Slice(raw, 0, Len(raw) - 1), Replaced(raw, 0, Colon), Replaced(raw, 3, 71),
     Replaced(raw, 6, 57), Replaced(raw, 15, 70)}

ParticleRecords ==
    Variants(VALID_SAMPLE_STRING) \cup Variants(VALID_DEV1_STRING)
      \cup Variants(VALID_CONFIG_STRING) \cup {<<>>}

\* A caller holds a record and has decoded nothing yet.
InitParticle ==
    /\ InitChunker(SilentProfiles) /\ InitProtocol({FALSE}) /\ InitSami /\ InitTable
    /\ raw_data \in ParticleRecords
    /\ parsed = NotParsed
    /\ request = NoRequest
    /\ encoded = NoText
    /\ decoded = NoValue
    /\ set_result = NoResult
    /\ param_values = [name \in Registered |-> Unset]
    /\ InitParticles /\ InitIdk /\ InitPackageIdle

\* The caller makes a particle of one class of the record it holds and
\* asks for its decoding.
Generate ==
    \E class \in ParticleClasses :
        /\ generated[class] = NotGenerated
        /\ generated' = [generated EXCEPT ![class] = generate(class, raw_data)]
        /\ UNCHANGED <<published, chunkerVars, workhorseVars, samiVars, tableVars, codecVars,
                       idkVars, packageVars>>

NextParticle == Generate

\* The three particle classes of the SAMI2-pCO2 driver asked to decode
\* records that are theirs and records that are not.
SpecParticle == InitParticle /\ [][NextParticle]_vars

\* A regular status string and a control record (type 0x80) on the wire.
StatusRecord == <<Colon>> \o Rep(48, 32) \o NEWLINE

ControlRecord == <<Star>> \o Rep(48, 4) \o <<56, 48>> \o Rep(48, 32) \o NEWLINE

\* The SAMI transport delivering whole status, control and sample records,
\* and records cut in two.
SamiRecordProfiles ==
    {[driver |-> "sami",
      pieces |-> {StatusRecord, ControlRecord, VALID_DEV1_STRING, Dev1Head, Dev1Tail},
      maxStream |-> MaxStatusStream],
     [driver |-> "sami", pieces |-> {VALID_SAMPLE_STRING, VALID_DEV1_STRING},
      maxStream |-> MaxSampleStream]}

InitSamiData == InitChunker(SamiRecordProfiles) /\ InitProtocol({FALSE}) /\ InitEngine

\* The inbound-data callback of the SAMI protocol: the next chunk is taken
\* from the chunker and given to _got_chunk, and the particles made of it
\* are handed downstream.
GotChunkSami ==
    /\ next_chunk
    /\ LET c == Head(chunks)
           base == Len(stream) - Len(buffer)
           particles == got_chunk_sami(Slice(buffer, c[1], c[2]))
       IN  published' = publish(published,
                                [k \in 1..Len(particles) |->
                                    [type |-> particles[k], start |-> base + c[1],
                                     end |-> base + c[2]]])
    /\ UNCHANGED <<generated, workhorseVars, samiVars, tableVars, codecVars, idkVars, packageVars>>

NextSamiData == Feed \/ GotChunkSami

\* The SAMI protocol fed by its transport: chunks are taken as they are
\* found and made into particles.
SpecSamiData == InitSamiData /\ [][NextSamiData]_vars

\* The header and the records of the example result set of the module's
\* documentation, its times written in the ISO 8601 format.
ExampleHeader ==
    [particle_object |-> "CtdpfParserDataParticle", particle_type |-> "ctdpf_parsed"]

\* 2013-07-26T21:01:03Z
ExampleTime ==
    <<50, 48, 49, 51, 45, 48, 55, 45, 50, 54, 84, 50, 49, 58, 48, 49, 58, 48, 51, 90>>

\* 07/26/2013 21:01:03, the time as the documentation writes it.
DocumentedTime ==
    <<48, 55, 47, 50, 54, 47, 50, 48, 49, 51, 32, 50, 49, 58, 48, 49, 58, 48, 51>>

FirstRecord ==
    [new_sequence |-> "True", internal_timestamp |-> ExampleTime,
     params |-> [key \in {"temperature", "pressure"} |->
                    IF key = "temperature" THEN 4 ELSE 161]]

SecondRecord ==
    [new_sequence |-> "absent", internal_timestamp |-> <<>>,
     params |-> [key \in {"temperature"} |-> 5]]

\* Result sets a test may have read: the two records; the first alone;
\* the second under _index 3; the first with the time of the
\* documentation, with a fraction of a second, with a null flag.
ResultSets ==
    {[header |-> ExampleHeader, data |-> d] :
        d \in {1 :> FirstRecord @@ 2 :> SecondRecord,
               1 :> FirstRecord,
               1 :> FirstRecord @@ 3 :> SecondRecord,
               1 :> [FirstRecord EXCEPT !.internal_timestamp = DocumentedTime]
                  @@ 2 :> SecondRecord,
               1 :> [FirstRecord EXCEPT !.internal_timestamp =
                        Slice(ExampleTime, 0, 19) \o <<46, 53, 48, 90>>]
                  @@ 2 :> SecondRecord,
               1 :> [FirstRecord EXCEPT !.new_sequence = "None"] @@ 2 :> SecondRecord}}

\* The particle of the first record and the particle of the second.
FirstParticle ==
    [is_dict |-> FALSE, class |-> "CtdpfParserDataParticle", stream_name |-> "ctdpf_parsed",
     internal_timestamp |-> <<3, 583861263>>, new_sequence |-> "True",
     values |-> <<[value_id |-> "temperature", value |-> 4],
                  [value_id |-> "pressure", value |-> 161]>>]

SecondParticle ==
    [is_dict |-> FALSE, class |-> "CtdpfParserDataParticle", stream_name |-> "ctdpf_parsed",
     internal_timestamp |-> <<>>, new_sequence |-> "absent",
     values |-> <<[value_id |-> "temperature", value |-> 5]>>]

\* Particles a test may give to verify: the two particles, and each with a
\* difference in one place.
ParticlesToVerify ==
    {FirstParticle, SecondParticle}
      \cup {[p EXCEPT !.is_dict = TRUE, !.class = "dict"] : p \in {FirstParticle, SecondParticle}}
      \cup {[FirstParticle EXCEPT !.class = "DataParticle"],
            [FirstParticle EXCEPT !.stream_name = "ctdpf_raw"]}
      \cup {[FirstParticle EXCEPT !.internal_timestamp = t] :
               t \in {<<>>, <<3, 583861264>>, <<3, 583861263, 5>>}}
      \cup {[FirstParticle EXCEPT !.new_sequence = f] : f \in {"absent", "False"}}
      \cup {[SecondParticle EXCEPT !.new_sequence = f] : f \in {"None", "False", "True"}}
      \cup {[FirstParticle EXCEPT !.values = v] :
               v \in {<<FirstParticle.values[2], FirstParticle.values[1]>>,
                      <<FirstParticle.values[1]>>,
                      Append(FirstParticle.values, [value_id |-> "oxygen", value |-> 2693]),
                      Append(FirstParticle.values, FirstParticle.values[1]),
                      <<FirstParticle.values[1], [value_id |-> "pressure", value |-> 160]>>}}

ParticleLists ==
    {<<>>} \cup {<<p>> : p \in ParticlesToVerify}
           \cup {<<p, q>> : p \in ParticlesToVerify, q \in ParticlesToVerify}

\* The lists a test goes on to verify: the particles of the example, none,
\* one or both of them in the wrong place, an object of another class and
\* a particle of another stream.
LaterLists ==
    {<<>>, <<FirstParticle>>, <<FirstParticle, SecondParticle>>,
     <<SecondParticle, FirstParticle>>, <<SecondParticle>>,
     <<[FirstParticle EXCEPT !.class = "DataParticle"]>>,
     <<[FirstParticle EXCEPT !.stream_name = "ctdpf_raw"], SecondParticle>>}

\* A test has read a result set and holds the particles to verify.
InitResultSet ==
    /\ InitChunker(SilentProfiles) /\ InitProtocol({FALSE})
    /\ InitSami /\ InitTable /\ InitCodecIdle /\ InitParticles /\ InitPackageIdle
    /\ result_set \in ResultSets
    /\ to_verify \in ParticleLists
    /\ verified = "none"
    /\ report = <<>>
    /\ previous = <<>>
    /\ document = NoDocument
    /\ constructed = NotConstructed

\* rs.verify(particles): the test verifies the particles it holds, and
\* then goes on verifying other lists with the same ResultSet.
Verify ==
    \E ps \in (IF verified = "none" THEN {to_verify} ELSE LaterLists) :
        /\ to_verify' = ps
        /\ verified' = verify(result_set, ps)
        /\ report' = verify_report(report, result_set, ps)
        /\ previous' = IF verified = "none" THEN <<>>
                       ELSE <<[verified |-> verified, report |-> report]>>
        /\ UNCHANGED <<result_set, document, constructed, chunkerVars, workhorseVars, samiVars,
                       tableVars, codecVars, particleVars, packageVars>>

NextResultSet == Verify

\* Result sets of the IDK asked to verify lists of particles.
SpecResultSet == InitResultSet /\ [][NextResultSet]_vars

\* Headers a result set file may have: none, an empty one, one without
\* particle_type, one without particle_object, and a whole one.
DocumentHeaders ==
    {<<>>, <<[key \in {} |-> ""]>>,
     <<[key \in {"particle_object"} |-> ExampleHeader[key]]>>,
     <<[key \in {"particle_type"} |-> ExampleHeader[key]]>>,
     <<ExampleHeader>>}

\* Records of a file: one of the two example records, with _index 1 or 2
\* or with none.
DocumentRecords ==
    {[index |-> i, record |-> r] : i \in {<<>>, <<1>>, <<2>>}, r \in {FirstRecord, SecondRecord}}

\* The data of a file: none, an empty list, one record or two.
DocumentData ==
    {<<>>, << <<>> >>} \cup {<< <<a>> >> : a \in DocumentRecords}
      \cup {<< <<a, b>> >> : a \in DocumentRecords, b \in DocumentRecords}

\* A test is about to read a result set file.
InitLoad ==
    /\ InitChunker(SilentProfiles) /\ InitProtocol({FALSE})
    /\ InitSami /\ InitTable /\ InitCodecIdle /\ InitParticles /\ InitPackageIdle
    /\ result_set = [header |-> [particle_object |-> "none", particle_type |-> "none"],
                     data |-> <<>>]
    /\ to_verify = <<>>
    /\ verified = "none"
    /\ report = <<>>
    /\ previous = <<>>
    /\ document \in [header : DocumentHeaders, data : DocumentData]
    /\ constructed = NotConstructed

\* ResultSet(result_file_path): the file is read, _set_result_set stores
\* its content or raises, and the report is cleared.
Construct ==
    /\ constructed = NotConstructed
    /\ constructed' = set_result_set(document)
    /\ report' = <<>>
    /\ UNCHANGED <<result_set, to_verify, verified, previous, document, chunkerVars,
                   workhorseVars, samiVars, tableVars, codecVars, particleVars, packageVars>>

NextLoad == Construct

\* Result set files, well formed and malformed, read by the constructor.
SpecLoad == InitLoad /\ [][NextLoad]_vars

\* The SAMI transport delivering whole device 1 sample records.
EngineProfiles ==
    {[driver |-> "sami", pieces |-> {VALID_DEV1_STRING}, maxStream |-> MaxDev1Stream]}

InitSamiEngine == InitChunker(EngineProfiles) /\ InitProtocol({FALSE}) /\ InitEngine

\* One more registration on the table the driver built.
RegisterOnce == table = SamiTable /\ AddHandler

\* The events of the state machine while the list of commands waiting for
\* their response is short.
BoundedSami == Len(pending) < MaxPending /\ NextSami

NextSamiEngine == BoundedSami \/ Feed \/ GotChunkSami \/ RegisterOnce

\* The SAMI protocol whole: its state machine raised events, its transport
\* feeding the chunker, chunks decoded into particles, and a handler
\* registered while it runs.
SpecSamiEngine == InitSamiEngine /\ [][NextSamiEngine]_vars

\* What package_driver may be started with.
CommandLines ==
    {<<"package_driver">>, <<"package_driver", "--no-test">>,
     <<"package_driver", "--no-test", "--verbose">>, <<"package_driver", "--test">>}

\* What the resource directory may hold: the string file, a file of the
\* developer and a directory of the developer.
ResourceEntries ==
    {[name |-> string_file, kind |-> "file"], [name |-> "notes.txt", kind |-> "file"],
     [name |-> "calibration", kind |-> "directory"]}

\* os.listdir gives the entries in an order of its own.
Listings ==
    {[exists |-> FALSE, files |-> <<>>], [exists |-> TRUE, files |-> <<>>]}
      \cup {[exists |-> TRUE, files |-> <<a>>] : a \in ResourceEntries}
      \cup {[exists |-> TRUE, files |-> <<p[1], p[2]>>] :
              p \in {q \in ResourceEntries \X ResourceEntries : q[1] # q[2]}}
      \cup {[exists |-> TRUE, files |-> <<p[1], p[2], p[3]>>] :
              p \in {q \in ResourceEntries \X ResourceEntries \X ResourceEntries :
                        q[1] # q[2] /\ q[1] # q[3] /\ q[2] # q[3]}}

\* PackageDriver.__init__: no archive and no manifest yet.
InitPackage ==
    /\ InitChunker(SilentProfiles) /\ InitProtocol({FALSE})
    /\ InitSami /\ InitTable /\ InitCodecIdle /\ InitParticles /\ InitIdk
    /\ argv \in CommandLines
    /\ listing \in Listings
    /\ qualification = "not run"
    /\ package_pc = "start"
    /\ todo = <<>>
    /\ adding = <<>>
    /\ manifest = {}
    /\ manifest_saved = {}
    /\ archive = <<>>
    /\ package_log = <<>>

\* run up to the call of package_driver: the tests are run unless the
\* single argument --no-test is given, and _store_package_files is entered
\* or not.
Run ==
    /\ package_pc = "start"
    /\ \E result \in (IF no_test(argv) THEN {"not run"} ELSE {"passed", "failed"}) :
          /\ qualification' = result
          /\ IF run_packages(argv, result)
             THEN /\ package_pc' = "packaging"
                  /\ todo' = store_package_files(listing)
             ELSE /\ package_pc' = "done"
                  /\ todo' = <<>>
    /\ UNCHANGED <<argv, listing, adding, manifest, manifest_saved, archive, package_log,
                   chunkerVars, workhorseVars, samiVars, tableVars, codecVars, particleVars,
                   idkVars>>

\* _add_file, first half: self.manifest().add_file(dest, description),
\* which also saves the manifest file.
ManifestAddFile ==
    /\ package_pc = "packaging"
    /\ adding = <<>>
    /\ todo # <<>>
    /\ LET call == Head(todo)
       IN  /\ adding' = <<call>>
           /\ manifest' = add_file(manifest, dest_of(call), call.description)
           /\ manifest_saved' = {e.dest : e \in manifest'}
           /\ package_log' = Append(package_log, [op |-> "manifest", dest |-> dest_of(call),
                                                  name |-> dest_of(call)])
    /\ UNCHANGED <<argv, listing, qualification, package_pc, todo, archive,
                   chunkerVars, workhorseVars, samiVars, tableVars, codecVars, particleVars,
                   idkVars>>

\* _add_file, second half: self.zipfile().write(source, dest, compression).
\* The manifest file goes into the archive as it was last saved.
ZipWrite ==
    /\ package_pc = "packaging"
    /\ adding # <<>>
    /\ LET call == adding[1]
       IN  /\ archive' = Append(archive,
                                [name |-> zip_entry_name(call),
                                 lists |-> IF basename(call.source) = manifest_file
                                           THEN manifest_saved ELSE {}])
           /\ package_log' = Append(package_log, [op |-> "archive", dest |-> dest_of(call),
                                                  name |-> zip_entry_name(call)])
    /\ adding' = <<>>
    /\ todo' = Tail(todo)
    /\ package_pc' = IF Tail(todo) = <<>> THEN "done" ELSE "packaging"
    /\ UNCHANGED <<argv, listing, qualification, manifest, manifest_saved,
                   chunkerVars, workhorseVars, samiVars, tableVars, codecVars, particleVars,
                   idkVars>>

NextPackage == Run \/ ManifestAddFile \/ ZipWrite

\* The package_driver process: the gate of the qualification tests and the
\* files stored one by one.
SpecPackage == InitPackage /\ [][NextPackage]_vars

\* ------------------------------------------------------------------------
\* Properties of the sieve functions and the chunker
\* ------------------------------------------------------------------------
RECURSIVE Flatten(_)
Flatten(segs) == IF segs = <<>> THEN <<>> ELSE Head(segs).bytes \o Flatten(Tail(segs))

ChunkIdx == {i \in 1..Len(out) : out[i].kind = "chunk"}

NoiseIdx == {i \in 1..Len(out) : out[i].kind = "noise"}

\* Offset in the input stream of the first retained byte.
Base == Len(stream) - Len(buffer)

PooledOutOfOrder ==
    LET r == Sieve(profile.driver, stream)
    IN  \E a, b \in 1..Len(r) : a < b /\ r[a][1] > r[b][1]

\* C2 (chunk ordering): successive next_chunk calls yield chunks in
\* non-decreasing start-offset order, whatever order the sieve pooled the
\* recognizers' ranges in.
C2_ChunkOrdering == \A i, j \in ChunkIdx : i < j => out[i].start <= out[j].start

\* Witness of C2: two chunks were emitted from a stream whose ranges the
\* sieve pooled out of start order.
C2_Witness == Cardinality(ChunkIdx) >= 2 /\ PooledOutOfOrder

\* The buffer starts with the sync marker and a length field.
FrameAtStart(buf) == Len(buf) >= 4 /\ buf[1] = SYNC /\ buf[2] = SYNC

FrameLength(buf) == unpack_H(buf[3], buf[4])

\* No byte after the length field starts a record of any recognizer.
CleanAfterLength(buf) ==
    \A i \in 5..Len(buf) : buf[i] \notin {SYNC, SysConfigMarker, CompassMarker}

FirstFrameProduced ==
    \/ \E i \in ChunkIdx : out[i].start = 0
    \/ Base = 0 /\ chunks # <<>> /\ chunks[1][1] = 0

\* C4 (truncated frame): while fewer bytes than the frame at the start of
\* the stream needs are there, no chunk is produced for it; once the stream
\* holds the marker, the length L and L payload bytes, the frame is
\* produced as a chunk.
C4_Orig ==
    FrameAtStart(stream) =>
        /\ Len(stream) < 2 + FrameLength(stream) => ~FirstFrameProduced
        /\ Len(stream) >= 4 + FrameLength(stream) => FirstFrameProduced

\* ------------------------------------------------------------------------
\* Properties of the Workhorse protocol
\* ------------------------------------------------------------------------

\* _got_chunk published a PD0 particle while the state machine was in COMMAND.
Pd0InCommand(g) ==
    g.state = "COMMAND" /\ \E k \in 1..Len(g.particles) : g.particles[k] = "PD0_PARSED"

C9_Orig == ~(executing["command"] # Idle /\ executing["data"] # Idle)

\* ------------------------------------------------------------------------
\* Properties of the SAMI protocol
\* ------------------------------------------------------------------------

\* C6 (timeout/retry bound): a PendingCommand armed with N retries that gets
\* no response is transmitted N + 1 times and then fails for good: it is
\* never transmitted more often, and once it waits for no deadline any more
\* it has been transmitted N + 1 times and its failure was reported.
C6_Orig ==
    \A i \in 1..Len(pending) :
        /\ pending[i].attempts <= pending[i].retries + 1
        /\ ~pending[i].waiting =>
              (pending[i].attempts = pending[i].retries + 1 /\ pending[i].failed)

\* C7 (unhandled event): on_event for a (state, event) pair without a
\* handler fails with UnhandledEvent carrying that state and event, and the
\* current state after the call is the state before it.
C7_UnhandledEvent ==
    (sami_outcome # NoOutcome /\ Lookup(SamiTable, sami_outcome.before, sami_outcome.event) = {})
        => /\ sami_outcome.error = <<"UnhandledEvent", sami_outcome.before, sami_outcome.event>>
           /\ sami_outcome.after = sami_outcome.before
           /\ sami_state = sami_outcome.before

\* Witness of C7: TIMEOUT or a command event was refused in a state that
\* has no handler for it.
C7_Witness ==
    /\ sami_outcome.error = <<"UnhandledEvent", "POLLED_SAMPLE", "ACQUIRE_SAMPLE">>
    /\ sami_state = "POLLED_SAMPLE"

\* C8 (one PendingCommand): at most one command is live at any time: no
\* second command is armed while an earlier one waits for its response or
\* its timeout.
C8_OnePending == Cardinality({i \in 1..Len(pending) : pending[i].waiting}) <= 1

\* Witness of C8: a second acquire-sample was raised while the first
\* command was waiting, and was refused.
C8_Witness ==
    /\ Len(pending) = 1
    /\ pending[1].waiting
    /\ sami_outcome.event = "ACQUIRE_SAMPLE"
    /\ sami_outcome.before \in {"SCHEDULED_SAMPLE", "POLLED_SAMPLE"}

\* C10 (sampling sub-states): from a sampling state entered on an
\* acquire-sample event, SUCCESS and TIMEOUT take the state machine back to
\* the state it was in before that event: SCHEDULED_SAMPLE back to
\* AUTOSAMPLE and POLLED_SAMPLE back to COMMAND.
C10_Orig ==
    (/\ sami_outcome.event \in {"SUCCESS", "TIMEOUT"}
     /\ sami_outcome.before \in SamplingStates
     /\ entered_from.event = "ACQUIRE_SAMPLE")
        => /\ sami_outcome.after = entered_from.state
           /\ sami_outcome.before = "SCHEDULED_SAMPLE" => sami_outcome.after = "AUTOSAMPLE"
           /\ sami_outcome.before = "POLLED_SAMPLE" => sami_outcome.after = "COMMAND"

\* ------------------------------------------------------------------------
\* Properties of the state machines (continued)
\* ------------------------------------------------------------------------
\* C11 (state machine determinism): a call of on_event that ran a handler
\* ran the one handler the table holds for the state the call found and
\* the event it was given, and the state it left behind is fixed by what
\* that handler handed back: its next_state when it is not null, the state
\* the call found otherwise.  Two calls with the same table, state and
\* event therefore run the same handler and, on the same outcome of the
\* handler, land in the same state.
C11_Determinism ==
    sami_outcome.handler # "none" =>
        /\ Lookup(SamiTable, sami_outcome.before, sami_outcome.event) = {sami_outcome.handler}
        /\ sami_outcome.after =
              IF sami_outcome.next_state \in SamiStates
              THEN sami_outcome.next_state
              ELSE sami_outcome.before
        /\ sami_state = sami_outcome.after

\* Witness of C11: ACQUIRE_SAMPLE raised in AUTOSAMPLE ran the handler
\* registered for AUTOSAMPLE, not the one the table holds for the same
\* event in COMMAND, and landed in SCHEDULED_SAMPLE.
C11_Witness ==
    /\ sami_outcome.event = "ACQUIRE_SAMPLE"
    /\ sami_outcome.before = "AUTOSAMPLE"
    /\ sami_outcome.handler = "_handler_autosample_acquire_sample"
    /\ sami_outcome.after = "SCHEDULED_SAMPLE"

\* The handlers of the Workhorse drivers whose bodies hand back no pair.
NoPairHandlers ==
    {"_handler_command_power_down", "_handler_command_restore_factory_params"}

\* C12 (handler failure): when the handler a call of on_event ran fails,
\* here the POWER_DOWN and RESTORE_FACTORY_PARAMS handlers, which hand back
\* no pair, the call ends with the failure reported to its caller and the
\* current state is the one the handler left; and a call that starts after
\* a failure is still given the handler the table holds for the current
\* state and its event.
C12_HandlerFailure ==
    [][\A c \in Callers :
          /\ (executing[c].handler \in NoPairHandlers /\ executing'[c] = Idle) =>
                /\ outcome'[c].error = <<"TypeError">>
                /\ outcome'[c].event = executing[c].event
                /\ outcome'[c].handler = executing[c].handler
                /\ current_state' = current_state
          /\ (handler_failed /\ executing[c] = Idle /\ executing'[c] # Idle) =>
                /\ executing'[c].state = current_state
                /\ Lookup(WorkhorseTable(profile.driver), current_state, executing'[c].event)
                      = {executing'[c].handler}
          /\ (handler_failed /\ executing[c] # Idle /\ executing'[c] = Idle
                  /\ outcome'[c].error = <<"none">>) =>
                /\ outcome'[c].next_state \in WorkhorseStates \cup {"None"}
                /\ outcome'[c].next_state \in WorkhorseStates =>
                      current_state' = outcome'[c].next_state]_vars

\* Witness of C12: a call failed in its handler (POWER_DOWN or
\* RESTORE_FACTORY_PARAMS in COMMAND) and the machine went on:
\* START_AUTOSAMPLE was raised later and took it from COMMAND to AUTOSAMPLE.
C12_Witness ==
    /\ handler_failed
    /\ outcome["command"].event = "START_AUTOSAMPLE"
    /\ outcome["command"].error = <<"none">>
    /\ outcome["command"].after = "AUTOSAMPLE"

\* C13 (shutdown handling): every state in which the machine waits for a
\* response or a timeout, the sampling states SCHEDULED_SAMPLE and
\* POLLED_SAMPLE among them, has a handler registered for SHUTDOWN: a
\* SHUTDOWN raised in a sampling state runs a handler.
C13_Orig ==
    (sami_outcome.event = "SHUTDOWN" /\ sami_outcome.before \in SamplingStates)
        => /\ sami_outcome.handler # "none"
           /\ sami_outcome.error = <<"none">>

\* C14 (starts in UNKNOWN, no terminal state): before the first call of
\* on_event the machine is in UNKNOWN, and in every state it reaches the
\* table holds a handler for at least one event.
C14_NoTerminalState ==
    /\ sami_outcome = NoOutcome => sami_state = "UNKNOWN"
    /\ sami_state \in SamiStates
    /\ \E event \in SamiEvents : Lookup(SamiTable, sami_state, event) # {}

\* Witness of C14: the machine is in a sampling state, where only the
\* handlers the driver registers are available, and one of them has run.
C14_Witness ==
    /\ sami_state \in SamplingStates
    /\ sami_outcome.before = sami_state
    /\ sami_outcome.handler \in {"_handler_sample_success", "_handler_sample_timeout"}

\* C15 (add_handler, last write wins): after any sequence of add_handler
\* calls every pair has exactly the handler of the last call made for it,
\* a pair no call named has what it had before, and on_event runs that
\* handler.
C15_LastWriteWins ==
    /\ \A p \in SamiStates \X SamiEvents :
          Lookup(table, p[1], p[2]) =
              IF registered[p] = "none" THEN {} ELSE {registered[p]}
    /\ dispatched.handler = dispatched.expected

\* Witness of C15: (POLLED_SAMPLE, SUCCESS), registered with
\* _handler_sample_success by the driver, was registered again with
\* _handler_sample_timeout, and SUCCESS in POLLED_SAMPLE ran the second;
\* (POLLED_SAMPLE, TIMEOUT) and (COMMAND, ACQUIRE_SAMPLE) kept theirs.
C15_Witness ==
    /\ <<"POLLED_SAMPLE", "SUCCESS", "_handler_sample_success">> \notin table
    /\ dispatched = [state |-> "POLLED_SAMPLE", event |-> "SUCCESS",
                     handler |-> "_handler_sample_timeout",
                     expected |-> "_handler_sample_timeout"]
    /\ Lookup(table, "POLLED_SAMPLE", "TIMEOUT") = {"_handler_sample_timeout"}
    /\ Lookup(table, "COMMAND", "ACQUIRE_SAMPLE") = {"_handler_command_acquire_sample"}

\* ------------------------------------------------------------------------
\* Properties of the chunker (continued)
\* ------------------------------------------------------------------------
Overlap(a, b) == a[1] < b[2] /\ b[1] < a[2]

\* k wins over r: it starts earlier, or at the same offset and is as wide.
Beats(k, r) == k[1] < r[1] \/ (k[1] = r[1] /\ k[2] >= r[2])

\* C16 (overlap resolution): of the ranges the recognizers report for the
\* buffer, the chunk list keeps ranges that do not overlap; every range
\* left out overlaps a kept range that starts earlier, or that starts at
\* the same offset and is at least as wide; the chunk next_chunk returns
\* is the earliest-starting of all; and no range that lost an overlap is
\* in the chunk list or among the emitted chunks later.
C16_OverlapResolution ==
    LET pool == Sieve(profile.driver, buffer)
        P == {pool[i] : i \in 1..Len(pool)}
        kept == Resolve(pool)
        K == {kept[i] : i \in 1..Len(kept)}
    IN  /\ K \subseteq P
        /\ \A r \in P \ K : \E k \in K : Overlap(k, r) /\ Beats(k, r)
        /\ \A k1 \in K, k2 \in K : k1 # k2 => ~Overlap(k1, k2)
        /\ kept # <<>> => \A r \in P : Beats(kept[1], r)
        /\ \A i \in 1..Len(chunks), j \in 1..Len(chunks) :
              i < j => chunks[i][2] <= chunks[j][1]
        /\ \A j \in 1..Len(chunks) : <<Base + chunks[j][1], Base + chunks[j][2]>> \notin discarded
        /\ \A i \in ChunkIdx : <<out[i].start, out[i].end>> \notin discarded

\* Witness of C16: two recognized ranges overlapped, the one that started
\* later was left out, and the earlier one was emitted by next_chunk.
C16_Witness ==
    \E d \in discarded, i \in ChunkIdx :
        /\ Overlap(<<out[i].start, out[i].end>>, d)
        /\ out[i].start < d[1]

\* C17 (no chunk twice): whatever the feeds and the drains, the emitted
\* chunks cover ranges of the input stream that do not overlap, in the
\* order of the stream, and each holds the bytes of its range: no byte is
\* in two chunks and no record is emitted twice.
C17_NoChunkTwice ==
    /\ \A i \in ChunkIdx, j \in ChunkIdx : i < j => out[i].end <= out[j].start
    /\ \A i \in ChunkIdx :
          /\ out[i].start < out[i].end
          /\ out[i].end <= Base
          /\ out[i].bytes = Slice(stream, out[i].start, out[i].end)

\* Witness of C17: a record with a sync marker inside its payload was
\* emitted, and after it a second chunk from the bytes that follow it.
C17_Witness ==
    \E i \in ChunkIdx, j \in ChunkIdx :
        /\ i < j
        /\ \E p \in 2..(Len(out[i].bytes) - 1) :
              out[i].bytes[p] = SYNC /\ out[i].bytes[p + 1] = SYNC

\* ------------------------------------------------------------------------
\* Properties of the configuration particle and the parameter dictionary
\* ------------------------------------------------------------------------

\* The value the particle holds under a key.
ValueOf(key) ==
    LET i == CHOOSE i \in 1..Len(parsed.values) : parsed.values[i].value_id = key
    IN  parsed.values[i].value

\* The mode bits in the order of their bit positions, 0 to 7.
ModeBitKeys ==
    <<"PMI_SAMPLE_SCHEDULE", "SAMI_SAMPLE_SCHEDULE", "SLOT1_FOLLOWS_SAMI_SCHEDULE",
      "SLOT1_INDEPENDENT_SCHEDULE", "SLOT2_FOLLOWS_SAMI_SCHEDULE",
      "SLOT2_INDEPENDENT_SCHEDULE", "SLOT3_FOLLOWS_SAMI_SCHEDULE",
      "SLOT3_INDEPENDENT_SCHEDULE">>

ReferenceDecoded == raw_data = VALID_CONFIG_STRING /\ parsed # NotParsed

\* C18 as the specification states it: the example configuration string
\* decodes to True, True, True for the mode bits 0 to 2 and to False for
\* the mode bits 3 to 7.
C18_Orig ==
    ReferenceDecoded =>
        /\ parsed.status = "ok"
        /\ \A i \in 1..3 : ValueOf(ModeBitKeys[i]) = TRUE
        /\ \A i \in 4..8 : ValueOf(ModeBitKeys[i]) = FALSE

\* C18 (bit-field decode), amended: the example configuration string
\* decodes to False, True, False, True, False, False, False, False for the
\* mode bits 0 to 7, from its mode byte 0A; the byte 07 is its global
\* configuration byte and decodes to True, True, True for the global bits
\* 0 to 2 and to False for the last declared global bit, bit 7.
C18_BitFields ==
    ReferenceDecoded =>
        /\ parsed.status = "ok"
        /\ group(raw_data, 4) = <<48, 65>>
        /\ group(raw_data, 20) = <<48, 55>>
        /\ [i \in 1..8 |-> ValueOf(ModeBitKeys[i])]
              = <<FALSE, TRUE, FALSE, TRUE, FALSE, FALSE, FALSE, FALSE>>
        /\ ValueOf("USE_BAUD_RATE_57600") = TRUE
        /\ ValueOf("SEND_RECORD_TYPE") = TRUE
        /\ ValueOf("SEND_LIVE_RECORDS") = TRUE
        /\ ValueOf("EXTEND_GLOBAL_CONFIG") = FALSE

\* Witness of C18: the example configuration string has been decoded into
\* a particle with all its 41 values.
C18_Witness ==
    /\ ReferenceDecoded
    /\ parsed.status = "ok"
    /\ Len(parsed.values) = 41
    /\ ValueOf("LAUNCH_TIME") = <<12, 14, 14, 9, 0, 11, 0, 0>>

\* A value that fits a field of `width` hexadecimal characters.
Representable(value, width) == Len(value) <= width

\* The width the record declares for the field of a parameter.
DeclaredWidth(name) == ConfigurationGroups[ParameterIndex(name)]

C20_EncodeSet ==
    [][set_result' # set_result =>
          LET r == set_result'
              read_only == /\ r.name \in Registered
                           /\ ParameterVisibility[ParameterIndex(r.name)] = "READ_ONLY"
          IN  /\ r.name = request.name /\ r.value = request.value
              /\ r.name \notin Registered =>
                    r.error = <<"UnknownParameter">> /\ r.wire = <<>>
              /\ read_only => r.error = <<"ReadOnlyParameter">> /\ r.wire = <<>>
              /\ r.error = <<"none">> =>
                    /\ r.name \in Registered
                    /\ ~read_only
                    /\ r.wire = ParameterEncode(r.name, r.value)
              /\ r.wire # <<>> => r.error = <<"none">>
              /\ param_values' = param_values]_vars

\* Witness of C20: the dictionary holds the values of the example
\* configuration and encode_set for MODE_BITS was refused as read-only.
C20_Witness ==
    /\ set_result.name = "MODE_BITS"
    /\ set_result.error = <<"ReadOnlyParameter">>
    /\ set_result.wire = <<>>
    /\ param_values["MODE_BITS"] = [known |-> TRUE, value |-> <<10>>]

\* ------------------------------------------------------------------------
\* Properties of the particles
\* ------------------------------------------------------------------------

\* C21 (decode failure): a particle class asked to decode bytes its regex
\* does not match fails with SampleException, which goes to the caller,
\* and makes no particle; so for the SAMI sample, the device 1 sample and
\* the configuration particle.
C21_DecodeFailure ==
    \A class \in ParticleClasses :
        (generated[class] # NotGenerated /\ ~MatchAt(ParticleMatcher(class), raw_data, 0))
            => /\ generated[class].error = <<"SampleException">>
               /\ generated[class].particles = <<>>

\* Witness of C21: a device 1 record without its line end was given to
\* each of the three particle classes and each of them failed.
C21_Witness ==
    /\ raw_data = Slice(VALID_DEV1_STRING, 0, Len(VALID_DEV1_STRING) - 1)
    /\ \A class \in ParticleClasses : generated[class].error = <<"SampleException">>

\* The chunks that left the chunker, oldest first.
ChunksOut == SelectSeq(out, LAMBDA o : o.kind = "chunk")

\* C22 as stated (one particle per chunk): for every chunk the sieve can
\* produce, the extractors of _got_chunk make one particle of one type,
\* never none and never two: so for the chunks of the Workhorse, and so
\* for the chunks of the SAMI, each of which has its one particle among
\* those handed downstream.
C22_Orig ==
    /\ \A i \in 1..Len(got) : Len(got[i].particles) = 1
    /\ profile.driver = "sami" =>
          /\ Len(published) = Len(ChunksOut)
          /\ \A i \in 1..Len(published) :
                published[i].start = ChunksOut[i].start /\ published[i].end = ChunksOut[i].end

\* C23 (delivery order): particles are handed downstream one at a time in
\* the order their chunks were consumed: when chunk A left the chunker
\* before chunk B, the particle of A is handed downstream before the
\* particle of B.
C23_DeliveryOrder ==
    \A a, b \in 1..Len(ChunksOut) :
        a < b =>
            \A i, j \in 1..Len(published) :
                (published[i].start = ChunksOut[a].start
                    /\ published[j].start = ChunksOut[b].start) => i < j

\* Witness of C23: a status string and then a device 1 record went through
\* the chunker, bytes of no record between them, and their two particles
\* were handed downstream.
C23_Witness ==
    /\ Len(published) = 2
    /\ published[1].type = "SamiRegularStatusDataParticle"
    /\ published[2].type = "Pco2wDev1SampleDataParticle"
    /\ published[1].end < published[2].start

\* ------------------------------------------------------------------------
\* Properties of the result sets
\* ------------------------------------------------------------------------

\* The particle has the type the header expects; a particle given as a
\* dictionary has no class and passes.
ExpectedType(p) == p.is_dict \/ p.class = result_set.header.particle_object

\* The time of the record cannot be converted although it has to be.
Unconvertible(p, def) ==
    /\ p.internal_timestamp # <<>>
    /\ def.internal_timestamp # <<>>
    /\ string_to_ntp_date_time(def.internal_timestamp).raised # <<>>

\* Times match: neither has one, or both have and the particle's is the
\* record's made into NTP time.
TimeMatches(p, def) ==
    \/ p.internal_timestamp = <<>> /\ def.internal_timestamp = <<>>
    \/ /\ p.internal_timestamp # <<>>
       /\ def.internal_timestamp # <<>>
       /\ string_to_ntp_date_time(def.internal_timestamp).time = p.internal_timestamp

KeySet(p) == {p.values[i].value_id : i \in 1..Len(p.values)}

\* Every entry of the particle has the value the record gives its key.
ValuesMatch(p, def) ==
    \A i \in 1..Len(p.values) :
        p.values[i].value_id \in DOMAIN def.params
            => LastValue(p.values, p.values[i].value_id) = def.params[p.values[i].value_id]

C26_Orig ==
    \A i \in 1..Len(got) :
        \A k \in 1..Len(got[i].particles) :
            got[i].particles[k] = "PD0_PARSED" => got[i].state # "COMMAND"

\* C27: the current state changes only in an on_event step whose handler
\* returned a non-null next_state, which becomes the state; the SUCCESS and
\* TIMEOUT handlers of the sampling states return a null next_state and
\* leave the state as it was; a step of add_handler, feed, next_chunk or
\* decode leaves it as it was.
C27_StateMutation ==
    [][/\ (sami_state' # sami_state =>
              /\ sami_outcome'.before = sami_state
              /\ sami_outcome'.handler # "none"
              /\ sami_outcome'.error = <<"none">>
              /\ sami_outcome'.next_state = sami_state'
              /\ UNCHANGED <<chunkerVars, tableVars, particleVars, codecVars>>)
       /\ ((/\ sami_outcome'.handler \in {"_handler_sample_success", "_handler_sample_timeout"}
            /\ sami_outcome'.before = sami_state)
              => (/\ sami_outcome'.next_state = "None"
                  /\ sami_state' = sami_state))
       /\ ((\/ table' # table
            \/ stream' # stream
            \/ buffer' # buffer
            \/ out' # out
            \/ published' # published)
              => sami_state' = sami_state)]_vars

\* SUCCESS ran its handler in POLLED_SAMPLE and the machine is still there,
\* after a record was fed, taken and decoded and a handler was registered.
C27_Witness ==
    /\ sami_outcome.event = "SUCCESS"
    /\ sami_outcome.before = "POLLED_SAMPLE"
    /\ sami_outcome.handler = "_handler_sample_success"
    /\ sami_outcome.next_state = "None"
    /\ sami_state = "POLLED_SAMPLE"
    /\ published # <<>>
    /\ table # SamiTable

\* The particles _got_chunk published include one of the type.
Published(g, type) == \E k \in 1..Len(g.particles) : g.particles[k] = type

\* C28: a call of _got_chunk raises RECOVER_AUTOSAMPLE only for a chunk
\* that decodes to a PD0 particle, with autosample recovery not disabled
\* and the machine in COMMAND; a PD0 chunk in another state, any chunk with
\* recovery disabled, and a compass-calibration or system-configuration
\* chunk raise no event, and the call leaves the current state, the
\* handlers executing and the outcomes of on_event as they were.
C28_RecoveryInjection ==
    [][Len(got') > Len(got) =>
          LET g == got'[Len(got')]
              quiet == /\ g.event = "none"
                       /\ UNCHANGED <<current_state, executing, outcome, handler_failed>>
          IN  /\ g.state = current_state
              /\ g.event \in {"none", "RECOVER_AUTOSAMPLE"}
              /\ g.event = "RECOVER_AUTOSAMPLE" =>
                    /\ Published(g, "PD0_PARSED")
                    /\ disable_autosample_recover # TRUE
                    /\ g.state = "COMMAND"
              /\ (Published(g, "PD0_PARSED") /\ g.state # "COMMAND") => quiet
              /\ disable_autosample_recover = TRUE => quiet
              /\ ~Published(g, "PD0_PARSED") => quiet
              /\ current_state' = current_state]_vars

\* With recovery enabled and the machine in COMMAND, a system-configuration
\* chunk raised nothing and a PD0 particle raised RECOVER_AUTOSAMPLE.
C28_Witness ==
    /\ disable_autosample_recover # TRUE
    /\ \E i \in 1..Len(got) :
          /\ Published(got[i], "SYSTEM_CONFIGURATION")
          /\ got[i].state = "COMMAND"
          /\ got[i].event = "none"
    /\ \E i \in 1..Len(got) :
          /\ Published(got[i], "PD0_PARSED")
          /\ got[i].state = "COMMAND"
          /\ got[i].event = "RECOVER_AUTOSAMPLE"

\* The length field of the first-pass hit at offset `pos`.
LengthAt(data, pos) == unpack_H(data[pos + 3], data[pos + 4])

\* The second-pass matches of the first-pass hit at offset `pos`.
SecondPass(data, pos) ==
    finditer(ADCP_PD0_PARSED_TRUE_MATCHER(LengthAt(data, pos)), data, pos)

\* C29 (second-pass validation): every PD0 range the sieve reports starts
\* at a first-pass sync-marker hit and spans the marker and the bytes its
\* length field counts; no first-pass hit is reported more than once, so a
\* second-pass match at a later offset is never reported on account of an
\* earlier hit; and when the length of every hit exceeds the bytes that
\* remain, nothing is reported.
C29_SecondPass ==
    LET hits == finditer(matcher2, buffer, 0)
        ranges == Pd0Ranges(buffer)
    IN  /\ \A k \in 1..Len(ranges) :
              \E h \in 1..Len(hits) :
                  /\ ranges[k][1] = hits[h][1]
                  /\ ranges[k][2] = hits[h][1] + 2 + LengthAt(buffer, hits[h][1])
                  /\ ranges[k][2] <= Len(buffer)
        /\ \A j, k \in 1..Len(ranges) : j # k => ranges[j][1] # ranges[k][1]
        /\ \A h \in 1..Len(hits) :
              LET later == SelectSeq(SecondPass(buffer, hits[h][1]),
                                     LAMBDA m : m[1] > hits[h][1])
              IN  \A i \in 1..Len(later) :
                      Cardinality({k \in 1..Len(ranges) : ranges[k] = later[i]})
                          = IF \E g \in 1..Len(hits) :
                                  /\ hits[g][1] = later[i][1]
                                  /\ LengthAt(buffer, hits[g][1]) = LengthAt(buffer, hits[h][1])
                            THEN 1 ELSE 0
        /\ (\A h \in 1..Len(hits) :
                hits[h][1] + 2 + LengthAt(buffer, hits[h][1]) > Len(buffer))
              => ranges = <<>>

\* A first-pass hit whose length-specific matcher also matches at a later
\* offset, while the sieve reports the hit itself.
C29_Witness ==
    LET hits == finditer(matcher2, buffer, 0)
    IN  \E h \in 1..Len(hits) :
            /\ \E i \in 1..Len(SecondPass(buffer, hits[h][1])) :
                  SecondPass(buffer, hits[h][1])[i][1] > hits[h][1]
            /\ \E k \in 1..Len(Pd0Ranges(buffer)) : Pd0Ranges(buffer)[k][1] = hits[h][1]

\* The bytes the chunker has removed from the front of its buffer so far.
Evicted == Len(stream) - Len(buffer)

\* The chunk a step of next_chunk extracted holds the stream offset.
ExtractedHolds(before, after, offset) ==
    \E k \in (Len(before) + 1)..Len(after) :
        /\ after[k].kind = "chunk"
        /\ after[k].start <= offset
        /\ offset < after[k].end

\* C30 as stated (eviction safety): a step that removes bytes from the raw
\* buffer removes a byte only when the chunk extracted in the step contains
\* it, or when it lies before the next remaining chunk and no recognizer
\* has a partial match touching it, that is, no record prefix that reaches
\* the end of the buffer starts at or before the byte and outside the
\* extracted chunk; so a record prefix at the tail that later feeds
\* complete is not evicted before it is completed.
C30_Orig ==
    [][Evicted' > Evicted =>
          \A pos \in 0..(Evicted' - Evicted - 1) :
              \/ ExtractedHolds(out, out', Evicted + pos)
              \/ /\ chunks' # <<>> => Evicted + pos < Evicted' + chunks'[1][1]
                 /\ ~ \E p \in 0..pos :
                        /\ ~ExtractedHolds(out, out', Evicted + p)
                        /\ AnyPartialAt(profile.driver, buffer, p)]_vars

\* The byte two hexadecimal characters stand for.
ByteOf(text) == 16 * HexValue(text[1]) + HexValue(text[2])

\* Bit `b` of a byte is set.
BitSet(byte, b) == (byte \div (2 ^ b)) % 2 = 1

\* The byte with its bits 3 to 6 replaced by the four bits of `gap`.
WithGapBits(byte, gap) == (byte % 8) + 8 * gap + 128 * (byte \div 128)

\* Settings of the bits 3 to 6: none, each one alone, and all four.
GapBits == {0, 1, 2, 4, 8, 15}

\* C31 (bit-field gap): in a decoded configuration record the flags
\* USE_BAUD_RATE_57600, SEND_RECORD_TYPE, SEND_LIVE_RECORDS and
\* EXTEND_GLOBAL_CONFIG follow each other in that order and hold bits 0, 1,
\* 2 and 7 of the global configuration byte; whatever bits 3 to 6 of that
\* byte are set to, the record decodes to the same values.
C31_GlobalBitGap ==
    parsed.status = "ok" =>
        LET byte == ByteOf(group(raw_data, 20))
        IN  /\ [i \in 27..30 |-> parsed.values[i].value_id]
                  = [i \in 27..30 |->
                        <<"USE_BAUD_RATE_57600", "SEND_RECORD_TYPE", "SEND_LIVE_RECORDS",
                          "EXTEND_GLOBAL_CONFIG">>[i - 26]]
            /\ [i \in 27..30 |-> parsed.values[i].value]
                  = [i \in 27..30 |-> BitSet(byte, <<0, 1, 2, 7>>[i - 26])]
            /\ \A gap \in GapBits :
                  LET other == WithGapBits(byte, gap)
                      text == <<UpperHex(other \div 16), UpperHex(other % 16)>>
                  IN  build_parsed_values(Embed(raw_data, 20, text)) = parsed

\* A record whose global configuration byte is 08 was decoded: bit 3 is
\* set, bit 7 is not, and EXTEND_GLOBAL_CONFIG is False.
C31_Witness ==
    /\ parsed.status = "ok"
    /\ group(raw_data, 20) = <<48, 56>>
    /\ ValueOf("EXTEND_GLOBAL_CONFIG") = FALSE
    /\ ValueOf("SEND_LIVE_RECORDS") = FALSE

\* The regex group each of the 41 keys is declared to read, in declaration
\* order: the fields 1 to 3, the mode byte 4 for eight flags, the fields 5
\* to 19, the global configuration byte 20 for four flags, the fields 21 to
\* 27, the SAMI bit switches 28 for two flags, and the fields 29 and 30.
DeclaredGroup ==
    <<1, 2, 3>> \o Rep(4, 8) \o [i \in 1..15 |-> 4 + i] \o Rep(20, 4)
      \o [i \in 1..7 |-> 20 + i] \o Rep(28, 2) \o <<29, 30>>

\* The bit each flag key reads in its byte; -1 for an integer key.
DeclaredBit ==
    Rep(-1, 3) \o [i \in 1..8 |-> i - 1] \o Rep(-1, 15) \o <<0, 1, 2, 7>>
      \o Rep(-1, 7) \o <<0, 1>> \o Rep(-1, 2)

\* C32 (configuration particle layout): a matching configuration record
\* decodes to 41 values, one per declared key in declaration order; a flag
\* key holds its bit of its own byte group (4, 20 or 28), an integer key
\* the number in the group of its own field; the group index is 5, 21 and
\* 29 at the first integer key after each run of flags and 30 at the last
\* key.
C32_ParticleLayout ==
    parsed.status = "ok" =>
        /\ Len(parsed.values) = 41
        /\ [j \in 1..41 |-> parsed.values[j].value_id] = particle_keys
        /\ \A j \in 1..41 :
              parsed.values[j].value =
                  IF DeclaredBit[j] >= 0
                  THEN BitSet(ByteOf(group(raw_data, DeclaredGroup[j])), DeclaredBit[j])
                  ELSE int16(group(raw_data, DeclaredGroup[j]))
        /\ grp_index(particle_keys, 12) = 5
        /\ grp_index(particle_keys, 31) = 21
        /\ grp_index(particle_keys, 40) = 29
        /\ grp_index(particle_keys, 41) = 30

\* A record with the mode byte FF and the global configuration byte 80 was
\* decoded: the field after the mode byte, the field after the global byte
\* and the last two fields have the numbers of the example string.
C32_Witness ==
    /\ parsed.status = "ok"
    /\ group(raw_data, 4) = <<70, 70>>
    /\ group(raw_data, 20) = <<56, 48>>
    /\ ValueOf("TIMER_INTERVAL_SAMI") = <<14, 1, 0>>
    /\ ValueOf("PUMP_PULSE") = <<1, 0>>
    /\ ValueOf("NUMBER_EXTRA_PUMP_CYCLES") = <<3, 8>>
    /\ ValueOf("EXTERNAL_PUMP_SETTINGS") = <<1, 4>>

\* ------------------------------------------------------------------------
\* Properties of the sample particles
\* ------------------------------------------------------------------------

\* The number four hexadecimal characters stand for, most significant
\* first.
BigEndian16(text) ==
    4096 * HexValue(text[1]) + 256 * HexValue(text[2]) + 16 * HexValue(text[3])
      + HexValue(text[4])

\* The number a sequence of hexadecimal digits stands for.
NumberOf(digits) ==
    LET S[i \in 0..Len(digits)] == IF i = 0 THEN 0 ELSE 16 * S[i - 1] + digits[i]
    IN  S[Len(digits)]

\* C33 (array field decode): a decoded SAMI sample record holds under
\* light_measurements a list of 14 numbers, the n-th being the unsigned
\* big-endian number of the n-th group of four characters of the 56
\* character span, in the order of the record; each of the other seven
\* fields holds the one integer of its own group.
C33_ArrayDecode ==
    LET g == generated["Pco2wSamiSampleDataParticle"]
    IN  g.error = <<"none">> =>
            LET values == g.particles[1].values
                light == values[5].value
            IN  /\ Len(values) = 8
                /\ values[5].value_id = "light_measurements"
                /\ Len(light) = 14
                /\ \A n \in 1..14 :
                      NumberOf(light[n])
                          = BigEndian16(Slice(raw_data, 15 + 4 * (n - 1),
                                              15 + 4 * n))
                /\ \A j \in (1..8) \ {5} :
                      /\ values[j].value = int16(sample_group(SampleGroups, raw_data, j))
                      /\ \A d \in 1..Len(values[j].value) : values[j].value[d] \in 0..15

\* A sample record whose light measurements start with F040 was decoded:
\* the first number is 0xF040 and the last 0x074E.
C33_Witness ==
    LET g == generated["Pco2wSamiSampleDataParticle"]
    IN  /\ g.error = <<"none">>
        /\ raw_data = Replaced(VALID_SAMPLE_STRING, 15, 70)
        /\ g.particles[1].values[5].value[1] = <<15, 0, 4, 0>>
        /\ g.particles[1].values[5].value[14] = <<7, 4, 14>>

\* ------------------------------------------------------------------------
\* Properties of the sieve functions
\* ------------------------------------------------------------------------

\* The fixed-grammar recognizers of a driver's sieve function.
FixedRecognizers(drv) ==
    IF drv = "sami"
    THEN <<REGULAR_STATUS_REGEX_MATCHER, CONTROL_RECORD_REGEX_MATCHER,
           SAMI_SAMPLE_REGEX_MATCHER, DEV1_SAMPLE_REGEX_MATCHER, CONFIGURATION_REGEX_MATCHER>>
    ELSE <<ADCP_SYSTEM_CONFIGURATION_REGEX_MATCHER, ADCP_COMPASS_CALIBRATION_REGEX_MATCHER>>

\* The ranges of the pool that are matches of the recognizer, in the order
\* of the pool.
ReportedFor(re, buf, pool) ==
    SelectSeq(pool, LAMBDA r : r[2] - r[1] = MatchLen(re) /\ MatchAt(re, buf, r[1]))

\* C34 (fixed-grammar recognition): for every fixed-grammar recognizer of
\* the driver's sieve function the reported ranges are matches, come left
\* to right without overlapping, and every place of the buffer where the
\* recognizer matches is reported or lies inside an earlier reported match;
\* the pool holds the ranges of all the recognizers, none dropped and none
\* merged: it has as many ranges as the recognizers found together (with
\* the PD0 ranges of the Workhorse sieve functions).
C34_FixedGrammar ==
    LET pool == Sieve(profile.driver, buffer)
        recognizers == FixedRecognizers(profile.driver)
        reported == [k \in 1..Len(recognizers) |-> ReportedFor(recognizers[k], buffer, pool)]
        Total[k \in 0..Len(recognizers)] ==
            IF k = 0 THEN 0 ELSE Total[k - 1] + Len(reported[k])
        variable == IF profile.driver = "sami" THEN 0 ELSE Len(Pd0Ranges(buffer))
    IN  /\ \A k \in 1..Len(recognizers) :
              /\ \A i, j \in 1..Len(reported[k]) :
                    i < j => reported[k][i][2] <= reported[k][j][1]
              /\ \A p \in 0..(Len(buffer) - 1) :
                    MatchAt(recognizers[k], buffer, p) =>
                        \E i \in 1..Len(reported[k]) :
                            reported[k][i][1] <= p /\ p < reported[k][i][2]
        /\ Len(pool) = Total[Len(recognizers)] + variable

\* The buffer of the SAMI chunker holds a sample record and a device 1
\* record, and the sieve reports both.
C34_Witness ==
    LET pool == Sieve(profile.driver, buffer)
    IN  /\ profile.driver = "sami"
        /\ ReportedFor(SAMI_SAMPLE_REGEX_MATCHER, buffer, pool) # <<>>
        /\ ReportedFor(DEV1_SAMPLE_REGEX_MATCHER, buffer, pool) # <<>>

\* The ranges a sieve function returned, as a set.
RangeSet(ranges) == {ranges[i] : i \in 1..Len(ranges)}

ArchiveNames == {archive[i].name : i \in 1..Len(archive)}

ManifestKeys == {e.dest : e \in manifest}

\* The egg is the first file stored and the manifest file the last one.
EggFirstManifestLast ==
    /\ package_log # <<>> => package_log[1].dest = <<"egg", basename(egg_file)>>
    /\ archive # <<>> => archive[1].name = <<"egg", basename(egg_file)>>
    /\ (package_pc = "done" /\ archive # <<>>) =>
          /\ archive[Len(archive)].name = <<manifest_file>>
          /\ package_log[Len(package_log)].dest = <<manifest_file>>

\* Every write to the archive directly follows the record of the same
\* destination in the manifest.
ManifestBeforeArchive ==
    \A i \in 1..Len(package_log) :
        package_log[i].op = "archive" =>
            /\ i > 1
            /\ package_log[i - 1].op = "manifest"
            /\ package_log[i - 1].dest = package_log[i].dest
            /\ package_log[i].dest \in ManifestKeys

\* C36 as stated (package ordering): _store_package_files adds the egg
\* first and the manifest file last, every _add_file records the
\* destination in the manifest before it writes to the archive, and when
\* packaging has completed the set of the archive's entry names equals the
\* set of the manifest's keys, the manifest file itself included.
C36_Orig ==
    /\ EggFirstManifestLast
    /\ ManifestBeforeArchive
    /\ (package_pc = "done" /\ archive # <<>>) =>
          /\ ArchiveNames = ManifestKeys
          /\ <<manifest_file>> \in ArchiveNames
          /\ archive[Len(archive)].lists = ManifestKeys

\* A package completed from a resource directory that holds a directory:
\* the manifest lists it, the archive holds an entry of another name.
DirectoryAgrees ==
    ~(/\ package_pc = "done"
      /\ <<"resource", "calibration">> \in ManifestKeys
      /\ <<"resource", "calibration">> \notin ArchiveNames
      /\ <<"resource", "calibration", "">> \in ArchiveNames)

\* Without a directory among the resources the completed archive and the
\* manifest name the same files.
FilesOnlyAgree ==
    (/\ package_pc = "done"
     /\ archive # <<>>
     /\ \A i \in 1..Len(listing.files) : listing.files[i].kind = "file") =>
        /\ ArchiveNames = ManifestKeys
        /\ archive[Len(archive)].lists = ManifestKeys

\* C37 (packaging gate): run builds the package only when the single
\* argument --no-test is given or the qualification tests passed; the
\* tests are run exactly when --no-test is not the single argument; and
\* when they failed the run is over with no call of _add_file: nothing is
\* in the archive, nothing in the manifest, no manifest file was saved.
C37_PackagingGate ==
    /\ (package_pc = "packaging" \/ archive # <<>> \/ manifest # {} \/ package_log # <<>>) =>
          (no_test(argv) \/ qualification = "passed")
    /\ package_pc # "start" => (qualification = "not run" <=> no_test(argv))
    /\ qualification = "failed" =>
          /\ package_pc = "done"
          /\ todo = <<>> /\ adding = <<>>
          /\ archive = <<>> /\ manifest = {} /\ manifest_saved = {} /\ package_log = <<>>

\* The tests were run, although --no-test was among three arguments, and
\* failed: the run has ended without a package.
C37_Witness ==
    /\ package_pc = "done"
    /\ argv = <<"package_driver", "--no-test", "--verbose">>
    /\ qualification = "failed"
    /\ archive = <<>>
    /\ manifest = {}

\* A package built behind the gate: tests passed, and tests bypassed.
BuiltAfterTests == ~(package_pc = "done" /\ qualification = "passed" /\ Len(archive) >= 4)

BuiltWithoutTests == ~(package_pc = "done" /\ no_test(argv) /\ Len(archive) >= 4)

\* The header of a document lacks particle_object or particle_type.
HeaderLacksField(doc) ==
    /\ doc.header # <<>>
    /\ {"particle_object", "particle_type"} \ DOMAIN doc.header[1] # {}

\* A document without a header, without data, with a record without
\* _index or with two records of the same _index.
MalformedOtherwise(doc) ==
    \/ doc.header = <<>>
    \/ doc.data = <<>>
    \/ /\ doc.data # <<>>
       /\ \E k \in 1..Len(doc.data[1]) :
             \/ doc.data[1][k].index = <<>>
             \/ \E j \in 1..(k - 1) : doc.data[1][j].index = doc.data[1][k].index

\* C38 as stated (malformed result sets): the constructor raises an error
\* for a result set without a header, with a header lacking
\* particle_object or particle_type, without data, with a record without
\* _index and with two records of the same _index, and leaves no ResultSet
\* constructed from it.
C38_Orig ==
    (/\ constructed # NotConstructed
     /\ (HeaderLacksField(document) \/ MalformedOtherwise(document))) =>
        constructed.raised # <<>>

\* The four other kinds of malformed result set are rejected with IOError.
OtherwiseRejected ==
    (constructed # NotConstructed /\ MalformedOtherwise(document)) =>
        (constructed.raised # <<>> /\ constructed.raised[1] = "IOError")

\* A result set whose header has particle_type and no particle_object is
\* never left constructed.
ObjectlessRejected ==
    ~(/\ constructed # NotConstructed
      /\ constructed.raised = <<>>
      /\ DOMAIN constructed.header = {"particle_type"}
      /\ DOMAIN constructed.data = {1, 2})

\* No well-formed result set is ever constructed.
NeverConstructed ==
    ~(/\ constructed # NotConstructed
      /\ constructed.raised = <<>>
      /\ constructed.header = ExampleHeader
      /\ constructed.data = (1 :> FirstRecord @@ 2 :> SecondRecord))

FailedAfterFailed ==
    ~(/\ previous # <<>>
      /\ previous[1].verified = "False"
      /\ verified = "False"
      /\ Len(report) < Len(previous[1].report))

====
